---- MODULE Spec2Model ----
(***************************************************************************)
(* Video transcoding and segmentation engine (app/services/video_service). *)
(* One engine operation at a time: planning a split, splitting a video     *)
(* into parts, or compressing it in one of three modes.  The external      *)
(* ffmpeg / ffprobe processes are the environment: every invocation draws  *)
(* its outcome (exit status, timeout, missing binary, bytes left on disk)  *)
(* nondeterministically.                                                   *)
(***************************************************************************)
EXTENDS Integers, Sequences, FiniteSets, TLC

(***************************************************************************)
(* Bounds of the model.                                                    *)
(***************************************************************************)
\* Python floats are binary floating point with round-to-nearest-even; the
\* model keeps the arithmetic and bounds the significand to MantBits bits.
MantBits == 7
\* durations fed to the planner are m * 2^e with 0 <= e <= MaxExp
MaxExp == 3
\* largest part count whose segments are actually extracted in a run
MaxRunParts == 5
\* calls of estimate_output_size in a run
MaxEstimateCalls == 2
\* format_duration is tried on every half second up to this many seconds
MaxFormatSeconds == 3725

(***************************************************************************)
(* Program constants.                                                      *)
(***************************************************************************)
MIN_PARTS == 2
MAX_PARTS == 20
MIN_SEGMENT_BYTES == 1000
MIN_VIDEO_BITRATE == 100
DEFAULT_AUDIO_BITRATE == 128
KBITS_PER_MB == 8192

(***************************************************************************)
(* Floating point: a value is <<m, e>> = m * 2^e, m = 0 or                 *)
(* 2^(MantBits-1) <= |m| < 2^MantBits.                                     *)
(***************************************************************************)
Zero == <<0, 0>>

Abs(n) == IF n < 0 THEN 0 - n ELSE n

RECURSIVE BitLen(_)
BitLen(n) == IF n = 0 THEN 0 ELSE 1 + BitLen(n \div 2)

\* q * 2^e with remainder r of 2 * half dropped: round to nearest, ties to
\* even, and renormalise when the significand overflows
RoundUp(sg, q, r, half, e) ==
    IF r > half \/ (r = half /\ q % 2 = 1)
    THEN IF q + 1 = 2^MantBits
         THEN <<sg * 2^(MantBits - 1), e + 1>>
         ELSE <<sg * (q + 1), e>>
    ELSE <<sg * q, e>>

\* sg * a * 2^e, a > 0, brought to MantBits bits by a shift of s bits
RoundShift(sg, a, s, e) ==
    IF s <= 0 THEN <<sg * a * 2^(0 - s), e + s>>
    ELSE RoundUp(sg, a \div 2^s, a % 2^s, 2^(s - 1), e + s)

\* n * 2^e rounded to MantBits significant bits, ties to even
Round(n, e) ==
    IF n = 0 THEN Zero
    ELSE RoundShift(IF n < 0 THEN 0 - 1 ELSE 1, Abs(n),
                    BitLen(Abs(n)) - MantBits, e)

\* float(n) for an int n
FromInt(n) == Round(n, 0)

\* a * b
FMul(a, b) == Round(a[1] * b[1], a[2] + b[2])

\* a / b for b # 0: the quotient is kept to MantBits + 2 bits plus a sticky
\* bit, so that the rounding is the rounding of the exact quotient
FDiv(a, b) ==
    LET k == MantBits + 2
        sg == IF (a[1] < 0) = (b[1] < 0) THEN 1 ELSE 0 - 1
        n == Abs(a[1]) * 2^k
        d == Abs(b[1])
        q == n \div d
        st == IF n % d = 0 THEN 0 ELSE 1
    IN Round(sg * (2 * q + st), a[2] - b[2] - k - 1)

\* a - b
FSub(a, b) ==
    LET lo == IF a[2] < b[2] THEN a[2] ELSE b[2]
    IN Round(a[1] * 2^(a[2] - lo) - b[1] * 2^(b[2] - lo), lo)

\* a < b
FLess(a, b) ==
    LET lo == IF a[2] < b[2] THEN a[2] ELSE b[2]
    IN a[1] * 2^(a[2] - lo) < b[1] * 2^(b[2] - lo)

FLeq(a, b) == a = b \/ FLess(a, b)

(***************************************************************************)
(* calculate_split_times                                                   *)
(***************************************************************************)
NoTimes == << >>

\* mutant: the loop is 1-based, range i is [(i+1) * pd, (i+2) * pd]
RECURSIVE SplitLoopFromOne(_, _, _, _)
SplitLoopFromOne(part_duration, num_parts, i, split_times) ==
    IF i >= num_parts THEN split_times
    ELSE SplitLoopFromOne(part_duration, num_parts, i + 1,
            Append(split_times, <<FMul(FromInt(i + 1), part_duration),
                                  FMul(FromInt(i + 2), part_duration)>>))

\* the loop `for i in range(num_parts)`, from iteration i on
RECURSIVE SplitLoop(_, _, _, _)
SplitLoop(part_duration, num_parts, i, split_times) ==
    IF i >= num_parts THEN split_times
    ELSE LET start_time == FMul(FromInt(i), part_duration)
             end_time == FMul(FromInt(i + 1), part_duration)
         IN SplitLoop(part_duration, num_parts, i + 1,
                      Append(split_times, <<start_time, end_time>>))

\* mutant: range i is [(i * duration) / parts, ((i + 1) * duration) / parts]
calculate_split_times_mul_first(duration, num_parts) ==
    IF num_parts < MIN_PARTS
    THEN [error |-> "ValueError:parts_min", times |-> NoTimes]
    ELSE IF num_parts > MAX_PARTS
    THEN [error |-> "ValueError:parts_max", times |-> NoTimes]
    ELSE [error |-> "none",
          times |-> [k \in 1 .. num_parts |->
             <<FDiv(FMul(FromInt(k - 1), duration), FromInt(num_parts)),
               FDiv(FMul(FromInt(k), duration), FromInt(num_parts))>>]]

\* mutant: the upper limit on the part count is not checked
calculate_split_times_no_max(duration, num_parts) ==
    IF num_parts < MIN_PARTS
    THEN [error |-> "ValueError:parts_min", times |-> NoTimes]
    ELSE [error |-> "none",
          times |-> SplitLoop(FDiv(duration, FromInt(num_parts)), num_parts,
                              0, << >>)]

calculate_split_times(duration, num_parts) ==
    IF num_parts < MIN_PARTS
    THEN [error |-> "ValueError:parts_min", times |-> NoTimes]
    ELSE IF num_parts > MAX_PARTS
    THEN [error |-> "ValueError:parts_max", times |-> NoTimes]
    ELSE LET part_duration == FDiv(duration, FromInt(num_parts))
         IN [error |-> "none",
             times |-> SplitLoop(part_duration, num_parts, 0, << >>)]

(***************************************************************************)
(* State                                                                   *)
(***************************************************************************)
VARIABLES
    pc,              \* position of the running operation
    kind,            \* which engine operation was called
    num_parts,       \* split: requested part count
    use_stream_copy, \* split: try stream copy before re-encoding
    duration,        \* probed (or given) duration
    split_times,     \* the plan: sequence of <<start_time, end_time>>
    part_i,          \* split: the loop's i, the part being extracted (1-based)
    output_paths,    \* split: parts accepted so far, by index
    files,           \* output directory: part index -> size, Absent if none
    probes,          \* ffprobe invocations of this operation
    copy_calls,      \* part index -> stream-copy invocations
    reencode_calls,  \* part index -> re-encode invocations
    copy_result,     \* part index -> how its stream copy ended
    last,            \* the last segment strategy call and what it saw
    failed_part,     \* the part named by the split error, 0 if none
    returned,        \* the list the operation returned
    target_size_mb,  \* compress: requested size (target-size mode)
    quality_preset,  \* compress: requested preset (quality, resolution modes)
    resolution,      \* compress: requested resolution (resolution mode)
    target_bitrate_kbps, \* compress: the computed video bitrate
    crf,             \* compress: constant-quality factor given to the encoder
    height,          \* compress: pixel height given to the scale filter
    out_file,        \* compress: size of the file at output_path, or Absent
    pass1_calls,     \* two-pass encode: invocations of pass 1
    pass2_calls,     \* two-pass encode: invocations of pass 2
    encode_calls,    \* single-pass encode: invocations
    pass_args,       \* two-pass encode: <<pass, -b:v, -passlogfile>> of each run
    runs,            \* compress: each encoder invocation and how it ended
    est_calls,       \* estimate: calls of estimate_output_size made so far
    est_args,        \* estimate: the arguments of the last call
    info,            \* estimate: what get_video_info returned to the last call
    est_result,      \* estimate: what the last call returned or raised
    est_prev,        \* estimate: the probe and the result of the call before
    est_invoked,     \* estimate: the external programs the calls have run
    fmt_seconds,     \* format_duration: the argument of the call
    fmt_result,      \* format_duration: the string returned
    probe_streams,   \* get_video_info: the "streams" list ffprobe had to print
    p_reqs,          \* request layer: the requests accepted and still running
    p_paths,         \* request layer: the paths each of them writes
    c_op,            \* concurrent splits: each worker's split_video call
    c_files,         \* concurrent splits: the part files, by base path
    c_owner,         \* concurrent splits: the worker whose encoder wrote the file
    c_foreign_deleted, \* concurrent splits: a cleanup removed another's part
    r_pc,            \* request: where the endpoint's handler stands
    r_endpoint,      \* request: the endpoint called
    r_parts,         \* request: the `parts` form field of /split
    r_probe,         \* request: what validate_video_file's probe returned
    r_cause,         \* request: what made the handler stop
    r_status,        \* request: the HTTP status answered, 0 while running
    r_input,         \* request: the uploaded input file exists
    r_segments,      \* request: part files of this request on disk
    r_zip,           \* request: the archive: "absent", "partial", "complete"
    r_output,        \* request: the compressed output file exists
    u_data,          \* usage tracker: self.data, ip -> count, last_reset, is_pro
    u_now,           \* usage tracker: time.time(), in hours
    u_granted,       \* usage tracker: the last set_pro_status of the ip
    u_last,          \* usage tracker: the last request through the decorator
    tools_at_entry,  \* the external programs installed when the operation began
    probe_outcome,   \* how the operation's ffprobe invocation ended
    touched,         \* every path the operation wrote, unlinked or had written
    tempdir,         \* target-size mode: the TemporaryDirectory of the pass log
    result           \* "none" while running, "ok", or the exception raised

split_vars == <<use_stream_copy, part_i, output_paths, files, probes, copy_calls,
                reencode_calls, copy_result, last, failed_part, returned>>

compress_vars == <<target_size_mb, quality_preset, resolution,
                   target_bitrate_kbps, crf, height, out_file, pass1_calls,
                   pass2_calls, encode_calls, pass_args, runs>>

est_vars == <<est_calls, est_args, info, est_result, est_prev, est_invoked>>

fmt_vars == <<fmt_seconds, fmt_result>>

\* the state of everything that is not a split, a compression or an estimate
path_vars == <<p_reqs, p_paths>>

conc_vars == <<c_op, c_files, c_owner, c_foreign_deleted>>

req_vars == <<r_pc, r_endpoint, r_parts, r_probe, r_cause, r_status, r_input,
              r_segments, r_zip, r_output>>

usage_vars == <<u_data, u_now, u_granted, u_last>>

aux_vars == <<fmt_vars, probe_streams, path_vars, conc_vars, req_vars,
              usage_vars>>

\* what the operation met outside itself and where it wrote
env_vars == <<tools_at_entry, probe_outcome, touched, tempdir>>

vars == <<pc, kind, num_parts, duration, split_times, result, split_vars, env_vars,
          compress_vars, est_vars, aux_vars>>

NoDuration == <<0 - 1, 0>>
Absent == 0 - 1
Parts == 1 .. MaxRunParts
NoCall == [strategy |-> "none", part |-> 0, outcome |-> "none",
           size |-> Absent, accepted |-> FALSE]
\* estimate_output_size has not been called
NoArgs == [mode |-> "", target_size_mb |-> NoDuration, quality_preset |-> "",
           resolution |-> ""]
NoInfo == [error |-> "none", size |-> 0, resolution |-> << >>]
NoEstimate == [error |-> "none", original_size_mb |-> 0,
               estimated_size_mb |-> 0, reduction_percent |-> 0]

\* the client addresses the tracker sees
ClientIPs == {"ip1", "ip2"}

\* an address self.data has no entry for
NoRecord == [count |-> 0 - 1, last_reset |-> 0 - 1, is_pro |-> FALSE]

\* no request has come through the decorator
NoRequest ==
    [ip |-> "", granted |-> FALSE, is_pro |-> FALSE, count_before |-> 0,
     count_after |-> 0, status |-> 0, ran |-> FALSE]

\* the workers that run split_video at the same time
Workers == {1, 2}

\* output_dir / base_name of a split: what decides the names of its parts
BasePaths == {"outputs/a", "outputs/b"}

\* a worker that has not called split_video
NoOperation ==
    [pc |-> "idle", base |-> "", num_parts |-> 0, use_stream_copy |-> TRUE,
     part_i |-> 0, output_paths |-> << >>, result |-> "none",
     returned |-> << >>, intact |-> TRUE]

\* get_video_info has not been called
NotProbed == <<[codec_type |-> "none", width |-> 0, height |-> 0]>>

\* the two external programs the engine runs
Tools == {"ffmpeg", "ffprobe"}

\* mutant: the parts are written next to the source video
segment_path_beside_source(k) ==
    [dir |-> "video_path.parent", name |-> <<"base_name_part", k>>,
     named_by |-> "engine"]

\* split_video: output_dir / f"{base_name}_part{i}{extension}"
segment_path(k) ==
    [dir |-> "destination", name |-> <<"base_name_part", k>>,
     named_by |-> "engine"]

\* the compress operations write the caller's output_path itself
compress_output_path ==
    [dir |-> "destination", name |-> <<"output_path", 0>>,
     named_by |-> "caller"]

\* tempfile.TemporaryDirectory(): a fresh directory under the system's
\* temporary directory
temp_dir_path ==
    [dir |-> "system_temp", name |-> <<"tmp", 0>>, named_by |-> "tempfile"]

\* passlogfile = Path(temp_dir) / "ffmpeg2pass"
passlog_path ==
    [dir |-> "temp_dir", name |-> <<"ffmpeg2pass", 0>>, named_by |-> "engine"]

\* `ffmpeg -version` is not found exactly when ffmpeg is not installed
EnvEntry(o, tools) ==
    /\ (o = "notfound") <=> ("ffmpeg" \notin tools)
    /\ tools_at_entry' = tools
    /\ UNCHANGED <<probe_outcome, touched, tempdir>>

\* the operation's ffprobe invocation ended with outcome o
EnvProbe(o) ==
    /\ probe_outcome' = o
    /\ UNCHANGED tools_at_entry

\* the operation wrote, or unlinked, the paths
EnvTouch(paths) ==
    /\ touched' = touched \cup paths
    /\ UNCHANGED <<tools_at_entry, probe_outcome>>

Init ==
    /\ pc = "idle"
    /\ kind = "none"
    /\ num_parts = 0
    /\ use_stream_copy = TRUE
    /\ duration = NoDuration
    /\ split_times = NoTimes
    /\ part_i = 0
    /\ output_paths = << >>
    /\ files = [k \in Parts |-> Absent]
    /\ probes = 0
    /\ copy_calls = [k \in Parts |-> 0]
    /\ reencode_calls = [k \in Parts |-> 0]
    /\ copy_result = [k \in Parts |-> "none"]
    /\ last = NoCall
    /\ failed_part = 0
    /\ returned = << >>
    /\ target_size_mb = Zero
    /\ quality_preset = ""
    /\ resolution = ""
    /\ target_bitrate_kbps = Zero
    /\ crf = 0
    /\ height = 0
    /\ out_file = Absent
    /\ pass1_calls = 0
    /\ pass2_calls = 0
    /\ encode_calls = 0
    /\ pass_args = << >>
    /\ runs = << >>
    /\ est_calls = 0
    /\ est_args = NoArgs
    /\ info = NoInfo
    /\ est_result = NoEstimate
    /\ est_prev = [info |-> NoInfo, result |-> NoEstimate]
    /\ est_invoked = << >>
    /\ fmt_seconds = Zero
    /\ fmt_result = ""
    /\ probe_streams = NotProbed
    /\ p_reqs = << >>
    /\ p_paths = << >>
    /\ c_op = [w \in Workers |-> NoOperation]
    /\ c_files = [b \in BasePaths |-> [k \in Parts |-> Absent]]
    /\ c_owner = [b \in BasePaths |-> [k \in Parts |-> 0]]
    /\ c_foreign_deleted = FALSE
    /\ r_pc = "idle"
    /\ r_endpoint = ""
    /\ r_parts = 0
    /\ r_probe = [error |-> "none", duration |-> NoDuration]
    /\ r_cause = "none"
    /\ r_status = 0
    /\ r_input = FALSE
    /\ r_segments = 0
    /\ r_zip = "absent"
    /\ r_output = FALSE
    /\ u_data = [ip \in ClientIPs |-> NoRecord]
    /\ u_now = 0
    /\ u_granted = [ip \in ClientIPs |-> FALSE]
    /\ u_last = NoRequest
    /\ tools_at_entry = Tools
    /\ probe_outcome = "none"
    /\ touched = {}
    /\ tempdir = "none"
    /\ result = "none"

(***************************************************************************)
(* A direct call of calculate_split_times(d, n)                            *)
(***************************************************************************)
PlanSplit(d, n) ==
    /\ pc = "idle"
    /\ \E r \in {calculate_split_times(d, n)} :
        /\ split_times' = r.times
        /\ result' = IF r.error = "none" THEN "ok" ELSE r.error
    /\ kind' = "plan"
    /\ num_parts' = n
    /\ duration' = d
    /\ pc' = "done"
    /\ UNCHANGED <<split_vars, compress_vars, est_vars, aux_vars, env_vars>>

\* every duration the planner is tried on
PlanDurations ==
    {Zero} \cup {<<m, e>> : m \in 2^(MantBits - 1) .. (2^MantBits - 1),
                            e \in 0 .. MaxExp}

PlanParts == 0 .. (MAX_PARTS + 1)

\* (the guard is repeated outside the quantifier so that a finished call
\* does not enumerate the inputs again)
NextPlan ==
    pc = "idle" /\ \E d \in PlanDurations, n \in PlanParts : PlanSplit(d, n)

SpecPlan == Init /\ [][NextPlan]_vars

(***************************************************************************)
(* The external processes.  An invocation ends in one of:                  *)
(*   exit0, exit1   the process ran and returned that status               *)
(*   timeout        subprocess.TimeoutExpired                              *)
(*   notfound       FileNotFoundError, the binary is not on the path       *)
(*   garbage        (ffprobe) exit status 0 with output float() rejects    *)
(***************************************************************************)
RunOutcomes == {"exit0", "exit1", "timeout", "notfound"}
ProbeOutcomes == RunOutcomes \cup {"garbage"}

\* what an encoder run may leave at a segment's output path
SegmentLeft == {Absent, 500, MIN_SEGMENT_BYTES, MIN_SEGMENT_BYTES + 1}

\* durations ffprobe may report
ProbeDurations == {Zero, FromInt(60), FromInt(600), FromInt(2048)}

\* part counts a split is requested with
SplitParts == {0, 1} \cup (MIN_PARTS .. MaxRunParts) \cup {MAX_PARTS + 1}

check_ffmpeg_installed(o) == o \notin {"notfound", "timeout"}

\* get_video_duration: o the ffprobe outcome, d the duration it printed
get_video_duration(o, d) ==
    CASE o = "exit0" -> [error |-> "none", duration |-> d]
      [] o = "notfound" -> [error |-> "FileNotFoundError", duration |-> NoDuration]
      [] OTHER -> [error |-> "ValueError:duration", duration |-> NoDuration]

\* the file at the output path when subprocess.run is over
encoder_leaves(before, o, left) == IF o = "notfound" THEN before ELSE left

\* mutant: the size test is >= instead of >
segment_accepted_geq(o, size) ==
    o = "exit0" /\ size # Absent /\ size >= MIN_SEGMENT_BYTES

\* `result.returncode == 0 and output_path.exists() and st_size > 1000`
segment_accepted(o, size) ==
    o = "exit0" /\ size # Absent /\ size > MIN_SEGMENT_BYTES

split_segment_stream_copy(before, o, left) ==
    LET size == encoder_leaves(before, o, left) IN
    IF o \in {"exit0", "exit1"} /\ segment_accepted(o, size)
    THEN [success |-> TRUE, file |-> size]
    ELSE [success |-> FALSE, file |-> Absent]

split_segment_reencode(before, o, left) ==
    LET size == encoder_leaves(before, o, left) IN
    IF o \in {"exit0", "exit1"} /\ segment_accepted(o, size)
    THEN [success |-> TRUE, file |-> size]
    ELSE [success |-> FALSE, file |-> Absent]

\* how a stream copy ended, as split_video sees it
copy_verdict(o, size) ==
    IF segment_accepted(o, size) THEN "accepted"
    ELSE IF o = "exit0" /\ size # Absent THEN "rejected_small"
    ELSE "rejected"

(***************************************************************************)
(* split_video: the loop over the plan                                     *)
(***************************************************************************)
first_strategy(usc) == IF usc THEN "split_copy" ELSE "split_reencode"

\* mutant: the accepted parts are not unlinked
rollback_nothing(fs, paths) == fs

\* `for path in output_paths: path.unlink(missing_ok=True)`
rollback(fs, paths) ==
    [k \in DOMAIN fs |->
        IF \E j \in 1 .. Len(paths) : paths[j] = k THEN Absent ELSE fs[k]]

\* `output_paths.append(output_path)`, then the next iteration or the return
accept_part(k, n, usc, paths, fs) ==
    LET ps == Append(paths, k) IN
    IF k + 1 > n
    THEN [pc |-> "done", part_i |-> k, output_paths |-> ps, files |-> fs,
          result |-> "ok", failed_part |-> 0, returned |-> ps]
    ELSE [pc |-> first_strategy(usc), part_i |-> k + 1, output_paths |-> ps,
          files |-> fs, result |-> "none", failed_part |-> 0,
          returned |-> << >>]

\* mutant: the re-encode runs whatever the stream copy returned
after_stream_copy_always_reencode(success, k, n, usc, paths, fs) ==
    [pc |-> "split_reencode", part_i |-> k, output_paths |-> paths,
     files |-> fs, result |-> "none", failed_part |-> 0, returned |-> << >>]

\* mutant: a rejected stream copy is tried again
after_stream_copy_retry(success, k, n, usc, paths, fs) ==
    IF success THEN accept_part(k, n, usc, paths, fs)
    ELSE [pc |-> "split_copy", part_i |-> k, output_paths |-> paths,
          files |-> fs, result |-> "none", failed_part |-> 0,
          returned |-> << >>]

\* after _split_segment_stream_copy: `if success: append; continue`
after_stream_copy(success, k, n, usc, paths, fs) ==
    IF success THEN accept_part(k, n, usc, paths, fs)
    ELSE [pc |-> "split_reencode", part_i |-> k, output_paths |-> paths,
          files |-> fs, result |-> "none", failed_part |-> 0,
          returned |-> << >>]

\* mutant: a part that failed both strategies is skipped (`continue`)
after_reencode_skip(success, k, n, usc, paths, fs) ==
    IF success THEN accept_part(k, n, usc, paths, fs)
    ELSE IF k + 1 > n
    THEN [pc |-> "done", part_i |-> k, output_paths |-> paths, files |-> fs,
          result |-> "ok", failed_part |-> 0, returned |-> paths]
    ELSE [pc |-> first_strategy(usc), part_i |-> k + 1,
          output_paths |-> paths, files |-> fs, result |-> "none",
          failed_part |-> 0, returned |-> << >>]

\* mutant: a part that failed both strategies ends the loop (`break`) and
\* the parts made so far are returned
after_reencode_return_partial(success, k, n, usc, paths, fs) ==
    IF success THEN accept_part(k, n, usc, paths, fs)
    ELSE [pc |-> "done", part_i |-> k, output_paths |-> paths, files |-> fs,
          result |-> "ok", failed_part |-> 0, returned |-> paths]

\* after _split_segment_reencode: append, or clean up and raise
after_reencode(success, k, n, usc, paths, fs) ==
    IF success THEN accept_part(k, n, usc, paths, fs)
    ELSE [pc |-> "done", part_i |-> k, output_paths |-> paths,
          files |-> rollback(fs, paths), result |-> "ValueError:split_part",
          failed_part |-> k, returned |-> << >>]

\* the operation ends by raising `err`
Raise(err) ==
    /\ pc' = "done"
    /\ result' = err

SplitVideoEntry(n, usc, o, tools) ==
    /\ pc = "idle"
    /\ EnvEntry(o, tools)
    /\ kind' = "split"
    /\ num_parts' = n
    /\ use_stream_copy' = usc
    /\ IF ~check_ffmpeg_installed(o) THEN Raise("RuntimeError:ffmpeg")
       ELSE IF n < MIN_PARTS \/ n > MAX_PARTS THEN Raise("ValueError:parts")
       ELSE pc' = "split_probe" /\ result' = "none"
    /\ UNCHANGED <<duration, split_times, part_i, output_paths, files, probes,
                   copy_calls, reencode_calls, copy_result, last, failed_part,
                   returned>>
    /\ UNCHANGED <<compress_vars, est_vars, aux_vars>>

\* get_video_duration, then calculate_split_times and the loop's first step
SplitProbe(o, d) ==
    /\ pc = "split_probe"
    /\ EnvProbe(o)
    /\ UNCHANGED <<touched, tempdir>>
    /\ probes' = probes + 1
    /\ LET g == get_video_duration(o, d)
           plan == calculate_split_times(d, num_parts)
       IN IF g.error # "none"
          THEN Raise(g.error) /\ UNCHANGED <<duration, split_times, part_i, returned>>
          ELSE /\ duration' = g.duration
               /\ IF plan.error # "none"
                  THEN Raise(plan.error) /\ UNCHANGED <<split_times, part_i, returned>>
                  ELSE /\ split_times' = plan.times
                       /\ IF Len(plan.times) = 0
                          THEN /\ pc' = "done" /\ result' = "ok"
                               /\ returned' = output_paths
                               /\ UNCHANGED part_i
                          ELSE /\ pc' = first_strategy(use_stream_copy)
                               /\ part_i' = 1
                               /\ UNCHANGED <<result, returned>>
    /\ UNCHANGED <<kind, num_parts, use_stream_copy, output_paths, files,
                   copy_calls, reencode_calls, copy_result, last, failed_part>>
    /\ UNCHANGED <<compress_vars, est_vars, aux_vars>>

\* one step of the split loop: nx is where the loop goes next
SplitMove(nx) ==
    /\ pc' = nx.pc
    /\ part_i' = nx.part_i
    /\ output_paths' = nx.output_paths
    /\ files' = nx.files
    /\ result' = nx.result
    /\ failed_part' = nx.failed_part
    /\ returned' = nx.returned

SplitStreamCopy(o, left) ==
    /\ pc = "split_copy"
    /\ EnvTouch({segment_path(part_i)})
    /\ UNCHANGED tempdir
    /\ LET r == split_segment_stream_copy(files[part_i], o, left)
           fs == [files EXCEPT ![part_i] = r.file]
       IN /\ SplitMove(after_stream_copy(r.success, part_i, Len(split_times),
                                         use_stream_copy, output_paths, fs))
          /\ last' = [strategy |-> "copy", part |-> part_i, outcome |-> o,
                      size |-> encoder_leaves(files[part_i], o, left),
                      accepted |-> r.success]
    /\ copy_calls' = [copy_calls EXCEPT ![part_i] = @ + 1]
    /\ copy_result' = [copy_result EXCEPT ![part_i] =
          copy_verdict(o, encoder_leaves(files[part_i], o, left))]
    /\ UNCHANGED <<kind, num_parts, use_stream_copy, duration, split_times,
                   probes, reencode_calls>>
    /\ UNCHANGED <<compress_vars, est_vars, aux_vars>>

SplitReencode(o, left) ==
    /\ pc = "split_reencode"
    /\ EnvTouch({segment_path(part_i)})
    /\ UNCHANGED tempdir
    /\ LET r == split_segment_reencode(files[part_i], o, left)
           fs == [files EXCEPT ![part_i] = r.file]
       IN /\ SplitMove(after_reencode(r.success, part_i, Len(split_times),
                                      use_stream_copy, output_paths, fs))
          /\ last' = [strategy |-> "reencode", part |-> part_i, outcome |-> o,
                      size |-> encoder_leaves(files[part_i], o, left),
                      accepted |-> r.success]
    /\ reencode_calls' = [reencode_calls EXCEPT ![part_i] = @ + 1]
    /\ UNCHANGED <<kind, num_parts, use_stream_copy, duration, split_times,
                   probes, copy_calls, copy_result>>
    /\ UNCHANGED <<compress_vars, est_vars, aux_vars>>

(***************************************************************************)
(* Compression                                                             *)
(***************************************************************************)
\* what an encoder run may leave at the compressed output path
OutputLeft == {Absent, 0, 5000}

\* requested target sizes in MB
TargetSizes == {FromInt(10), FromInt(57), FromInt(100)}

PresetInputs == {"low", "medium", "high", "LOW", "High", "ultra"}
ResolutionInputs ==
    {"2160p", "1440p", "1080p", "720p", "480p", "360p", "4k", "720", "720P",
     ""}

\* str.lower() on the preset names of the model
Lower(s) ==
    CASE s = "LOW" -> "low"
      [] s = "High" -> "high"
      [] OTHER -> s

\* int(x): truncation toward zero
FTrunc(x) ==
    IF x[2] >= 0 THEN x[1] * 2^x[2]
    ELSE (IF x[1] < 0 THEN 0 - 1 ELSE 1) * (Abs(x[1]) \div 2^(0 - x[2]))

\* mutant: the preset is looked up as given, without lower()
get_crf_for_preset_case_sensitive(preset) ==
    CASE preset = "low" -> 28
      [] preset = "medium" -> 23
      [] preset = "high" -> 18
      [] OTHER -> 23

get_crf_for_preset(preset) ==
    CASE Lower(preset) = "low" -> 28
      [] Lower(preset) = "medium" -> 23
      [] Lower(preset) = "high" -> 18
      [] OTHER -> 23

\* mutant: the height is also taken without its "p" and with a capital "P"
resolution_map_lenient(res) ==
    CASE res = "2160p" -> 2160
      [] res = "1440p" -> 1440
      [] res = "1080p" -> 1080
      [] res \in {"720p", "720", "720P"} -> 720
      [] res = "480p" -> 480
      [] res = "360p" -> 360
      [] OTHER -> 0

\* resolution_map.get(resolution); 0 stands for None
resolution_map(res) ==
    CASE res = "2160p" -> 2160
      [] res = "1440p" -> 1440
      [] res = "1080p" -> 1080
      [] res = "720p" -> 720
      [] res = "480p" -> 480
      [] res = "360p" -> 360
      [] OTHER -> 0

\* ((target_size_mb * 8192) / duration) - audio_bitrate_kbps, duration # 0
target_bitrate(size_mb, d, audio_kbps) ==
    FSub(FDiv(FMul(size_mb, FromInt(KBITS_PER_MB)), d), FromInt(audio_kbps))

\* mutant: the floor test is <= instead of <
bitrate_too_small_leq(b) == FLeq(b, FromInt(MIN_VIDEO_BITRATE))

\* `if target_bitrate_kbps < 100`
bitrate_too_small(b) == FLess(b, FromInt(MIN_VIDEO_BITRATE))

\* mutant: each pass has a statistics log of its own
two_pass_command_own_log(pass, bitrate_kbps, passlogfile) ==
    <<pass, FTrunc(bitrate_kbps),
      [passlogfile EXCEPT !.name = <<"ffmpeg2pass", pass>>]>>

\* command_pass1 and command_pass2: "-b:v" f"{int(video_bitrate_kbps)}k",
\* "-pass" and "-passlogfile" str(passlogfile)
two_pass_command(pass, bitrate_kbps, passlogfile) ==
    <<pass, FTrunc(bitrate_kbps), passlogfile>>

\* mutant: pass 1's exit status is not looked at
two_pass_first_ignores_exit(o, before) ==
    CASE o \in {"exit0", "exit1"} -> [go_on |-> TRUE, file |-> before]
      [] OTHER -> [go_on |-> FALSE, file |-> Absent]

\* _run_two_pass_encode up to the end of pass 1
two_pass_first(o, before) ==
    CASE o = "exit0" -> [go_on |-> TRUE, file |-> before]
      [] o = "exit1" -> [go_on |-> FALSE, file |-> before]
      [] OTHER -> [go_on |-> FALSE, file |-> Absent]

\* mutant: a failed pass 2 leaves its partial output in place
two_pass_second_keeps_output(o, before, left) ==
    LET size == encoder_leaves(before, o, left) IN
    IF o = "exit0" /\ size # Absent
    THEN [success |-> TRUE, file |-> size]
    ELSE [success |-> FALSE, file |-> size]

\* _run_two_pass_encode, pass 2 and its check
two_pass_second(o, before, left) ==
    LET size == encoder_leaves(before, o, left) IN
    IF o = "exit0" /\ size # Absent
    THEN [success |-> TRUE, file |-> size]
    ELSE [success |-> FALSE, file |-> Absent]

\* mutant: the timeout handler does not unlink the output
single_pass_timeout_keeps(o, before, left) ==
    LET size == encoder_leaves(before, o, left) IN
    IF o = "exit0" /\ size # Absent
    THEN [error |-> "none", file |-> size]
    ELSE IF o = "timeout"
    THEN [error |-> "ValueError:timeout", file |-> size]
    ELSE [error |-> "ValueError:compress_failed", file |-> Absent]

\* the try block of compress_quality and of compress_resolution
single_pass(o, before, left) ==
    LET size == encoder_leaves(before, o, left) IN
    IF o = "exit0" /\ size # Absent
    THEN [error |-> "none", file |-> size]
    ELSE IF o = "timeout"
    THEN [error |-> "ValueError:timeout", file |-> Absent]
    ELSE [error |-> "ValueError:compress_failed", file |-> Absent]

CompressTargetSizeEntry(size_mb, o, tools) ==
    /\ pc = "idle"
    /\ EnvEntry(o, tools)
    /\ kind' = "target_size"
    /\ target_size_mb' = size_mb
    /\ IF ~check_ffmpeg_installed(o) THEN Raise("RuntimeError:ffmpeg")
       ELSE pc' = "ts_probe" /\ result' = "none"
    /\ UNCHANGED <<num_parts, duration, split_times, split_vars,
                   quality_preset, resolution, target_bitrate_kbps, crf,
                   height, out_file, pass1_calls, pass2_calls, encode_calls,
                   pass_args, runs, est_vars, aux_vars>>

\* get_video_duration, the bitrate and its floor
TargetSizeProbe(o, d) ==
    /\ pc = "ts_probe"
    /\ probes' = probes + 1
    /\ LET g == get_video_duration(o, d) IN
       IF g.error # "none"
       THEN Raise(g.error) /\ UNCHANGED <<duration, target_bitrate_kbps>>
       ELSE /\ duration' = g.duration
            /\ IF g.duration = Zero
               THEN Raise("ZeroDivisionError") /\ UNCHANGED target_bitrate_kbps
               ELSE LET b == target_bitrate(target_size_mb, g.duration,
                                            DEFAULT_AUDIO_BITRATE)
                    IN /\ target_bitrate_kbps' = b
                       /\ IF bitrate_too_small(b)
                          THEN Raise("ValueError:too_small")
                          ELSE pc' = "ts_pass1" /\ result' = "none"
    /\ EnvProbe(o)
    \* `with tempfile.TemporaryDirectory() as temp_dir`
    /\ IF pc' = "ts_pass1"
       THEN tempdir' = "exists" /\ touched' = touched \cup {temp_dir_path}
       ELSE UNCHANGED <<tempdir, touched>>
    /\ UNCHANGED <<kind, num_parts, split_times, use_stream_copy, part_i,
                   output_paths, files, copy_calls, reencode_calls, copy_result,
                   last, failed_part, returned, target_size_mb, quality_preset,
                   resolution, crf, height, out_file, pass1_calls, pass2_calls,
                   encode_calls, pass_args, runs, est_vars, aux_vars>>

TargetSizePass1(o) ==
    /\ pc = "ts_pass1"
    /\ pass1_calls' = pass1_calls + 1
    /\ pass_args' = Append(pass_args,
                          two_pass_command(1, target_bitrate_kbps, passlog_path))
    /\ runs' = Append(runs, [pass |-> "pass1", outcome |-> o,
                             size |-> out_file])
    /\ LET r == two_pass_first(o, out_file) IN
        /\ out_file' = r.file
        /\ IF r.go_on THEN pc' = "ts_pass2" /\ result' = "none"
           ELSE Raise("ValueError:compress_failed")
    \* pass 1 writes the log; the handler of an exception unlinks output_path;
    \* leaving the `with` block removes the directory
    /\ EnvTouch((IF o = "notfound" THEN {} ELSE {passlog_path})
                   \cup (IF o \in {"exit0", "exit1"} THEN {}
                         ELSE {compress_output_path}))
    /\ tempdir' = IF pc' = "done" THEN "removed" ELSE tempdir
    /\ UNCHANGED <<kind, num_parts, duration, split_times, split_vars,
                   target_size_mb, quality_preset, resolution,
                   target_bitrate_kbps, crf, height, pass2_calls, encode_calls,
                   est_vars, aux_vars>>

TargetSizePass2(o, left) ==
    /\ pc = "ts_pass2"
    /\ pass2_calls' = pass2_calls + 1
    /\ pass_args' = Append(pass_args,
                          two_pass_command(2, target_bitrate_kbps, passlog_path))
    /\ runs' = Append(runs, [pass |-> "pass2", outcome |-> o,
                             size |-> encoder_leaves(out_file, o, left)])
    /\ LET r == two_pass_second(o, out_file, left) IN
        /\ out_file' = r.file
        /\ IF r.success THEN pc' = "done" /\ result' = "ok"
           ELSE Raise("ValueError:compress_failed")
    /\ EnvTouch({compress_output_path})
    /\ tempdir' = "removed"
    /\ UNCHANGED <<kind, num_parts, duration, split_times, split_vars,
                   target_size_mb, quality_preset, resolution,
                   target_bitrate_kbps, crf, height, pass1_calls, encode_calls,
                   est_vars, aux_vars>>

CompressQualityEntry(preset, o, tools) ==
    /\ pc = "idle"
    /\ EnvEntry(o, tools)
    /\ kind' = "quality"
    /\ quality_preset' = preset
    /\ IF ~check_ffmpeg_installed(o)
       THEN Raise("RuntimeError:ffmpeg") /\ UNCHANGED crf
       ELSE /\ crf' = get_crf_for_preset(preset)
            /\ pc' = "encode" /\ result' = "none"
    /\ UNCHANGED <<num_parts, duration, split_times, split_vars,
                   target_size_mb, resolution, target_bitrate_kbps, height,
                   out_file, pass1_calls, pass2_calls, encode_calls, pass_args,
                   runs, est_vars, aux_vars>>

CompressResolutionEntry(res, preset, o, tools) ==
    /\ pc = "idle"
    /\ EnvEntry(o, tools)
    /\ kind' = "resolution"
    /\ resolution' = res
    /\ quality_preset' = preset
    /\ IF ~check_ffmpeg_installed(o)
       THEN Raise("RuntimeError:ffmpeg") /\ UNCHANGED <<crf, height>>
       ELSE IF resolution_map(res) = 0
       THEN Raise("ValueError:resolution") /\ UNCHANGED <<crf, height>>
       ELSE /\ height' = resolution_map(res)
            /\ crf' = get_crf_for_preset(preset)
            /\ pc' = "encode" /\ result' = "none"
    /\ UNCHANGED <<num_parts, duration, split_times, split_vars,
                   target_size_mb, target_bitrate_kbps, out_file, pass1_calls,
                   pass2_calls, encode_calls, pass_args, runs, est_vars, aux_vars>>

\* the single constant-quality encode of quality and resolution mode
SinglePassEncode(o, left) ==
    /\ pc = "encode"
    /\ encode_calls' = encode_calls + 1
    /\ runs' = Append(runs, [pass |-> "encode", outcome |-> o,
                             size |-> encoder_leaves(out_file, o, left)])
    /\ LET r == single_pass(o, out_file, left) IN
        /\ out_file' = r.file
        /\ IF r.error = "none" THEN pc' = "done" /\ result' = "ok"
           ELSE Raise(r.error)
    /\ EnvTouch({compress_output_path})
    /\ UNCHANGED tempdir
    /\ UNCHANGED <<kind, num_parts, duration, split_times, split_vars,
                   target_size_mb, quality_preset, resolution,
                   target_bitrate_kbps, crf, height, pass1_calls, pass2_calls,
                   pass_args, est_vars, aux_vars>>

(***************************************************************************)
(* estimate_output_size                                                    *)
(***************************************************************************)
\* `None` for the optional target size
NoTarget == NoDuration

\* sizes ffprobe may report, in bytes: 0, 1.25 MiB, 100 MiB
InfoSizes == {0, 5 * 2^18, 100 * 2^20}

\* <<width, height>> of the first video stream; 0 when the stream has none
InfoDims == {<<0, 0>>, <<1920, 1080>>, <<1280, 720>>}

EstimateModes == {"target_size", "quality", "resolution"}
EstimateTargets == {NoTarget, Zero, FromInt(10), FDiv(FromInt(1), FromInt(8))}
EstimatePresets == {"", "low", "medium", "High", "ultra"}
EstimateResolutions == {"", "360p", "1080p", "4k"}

RECURSIVE GCD(_, _)
GCD(a, b) == IF b = 0 THEN a ELSE GCD(b, a % b)

\* a / b for ints a >= 0, b > 0: the exact quotient, rounded once
IntTrueDiv(a, b) ==
    IF a = 0 THEN Zero
    ELSE LET g == GCD(a, b)
             d == b \div g
             k == MantBits + 2 + BitLen(d)
             n == (a \div g) * 2^k
         IN Round(2 * (n \div d) + (IF n % d = 0 THEN 0 ELSE 1), 0 - k - 1)

\* round(x, ndigits): x to the nearest multiple of 10^-ndigits, ties of the
\* binary value to even; the result is the count of such multiples
RoundDec(x, ndigits) ==
    LET sg == IF x[1] < 0 THEN 0 - 1 ELSE 1
        n == Abs(x[1]) * 10^ndigits
        s == 0 - x[2]
    IN IF s <= 0 THEN sg * n * 2^(0 - s)
       ELSE IF s > 30 THEN 0
       ELSE LET q == n \div 2^s
                r == n % 2^s
                half == 2^(s - 1)
            IN IF r > half \/ (r = half /\ q % 2 = 1)
               THEN sg * (q + 1) ELSE sg * q

\* the float literal 0.d
Tenths(d) == FDiv(FromInt(d), FromInt(10))

\* get_video_info: o the ffprobe outcome, size and dims what it printed
get_video_info(o, size, dims) ==
    CASE o = "exit0" ->
            [error |-> "none", size |-> size,
             resolution |-> IF dims[1] # 0 /\ dims[2] # 0
                            THEN dims ELSE <<0>>]
      [] o = "notfound" ->
            [error |-> "FileNotFoundError", size |-> 0, resolution |-> << >>]
      [] OTHER ->
            [error |-> "ValueError:info", size |-> 0, resolution |-> << >>]

\* what get_video_info may return
Infos ==
    {get_video_info(o, sz, dm) : o \in ProbeOutcomes, sz \in InfoSizes,
                                 dm \in InfoDims}

\* mutant: the table is upside down, low 0.7 and high 0.3
compression_ratios_swapped(preset) ==
    CASE Lower(preset) = "low" -> Tenths(7)
      [] Lower(preset) = "medium" -> Tenths(5)
      [] Lower(preset) = "high" -> Tenths(3)
      [] OTHER -> Tenths(5)

\* compression_ratios.get(quality_preset.lower(), 0.5), and quality_factors
compression_ratios(preset) ==
    CASE Lower(preset) = "low" -> Tenths(3)
      [] Lower(preset) = "medium" -> Tenths(5)
      [] Lower(preset) = "high" -> Tenths(7)
      [] OTHER -> Tenths(5)

\* mutant: an unparsed resolution still gets the preset's ratio
estimate_resolution_no_flat_fallback(original_size_mb, res_parts, res, preset) ==
    IF Len(res_parts) = 2
    THEN LET current_height == res_parts[2]
             target_height == IF resolution_map(res) # 0
                              THEN resolution_map(res) ELSE current_height
             ratio == IntTrueDiv(target_height, current_height)
         IN FMul(FMul(original_size_mb, FMul(ratio, ratio)),
                 compression_ratios(preset))
    ELSE FMul(original_size_mb, compression_ratios(preset))

\* mutant: the scale factor is (current height / target height) squared
estimate_resolution_inverted(original_size_mb, res_parts, res, preset) ==
    IF Len(res_parts) = 2
    THEN LET current_height == res_parts[2]
             target_height == IF resolution_map(res) # 0
                              THEN resolution_map(res) ELSE current_height
             ratio == IntTrueDiv(current_height, target_height)
         IN FMul(FMul(original_size_mb, FMul(ratio, ratio)),
                 compression_ratios(preset))
    ELSE FMul(original_size_mb, Tenths(5))

\* the resolution branch: res_parts is info["resolution"].split("x")
estimate_resolution(original_size_mb, res_parts, res, preset) ==
    IF Len(res_parts) = 2
    THEN LET current_height == res_parts[2]
             target_height == IF resolution_map(res) # 0
                              THEN resolution_map(res) ELSE current_height
             ratio == IntTrueDiv(target_height, current_height)
             scale_factor == FMul(ratio, ratio)
             quality_factor == compression_ratios(preset)
         IN FMul(FMul(original_size_mb, scale_factor), quality_factor)
    ELSE FMul(original_size_mb, Tenths(5))

\* a float or None in a condition
Truthy(x) == x # NoTarget /\ x # Zero

\* mutant: the target is capped at the original size
estimated_size_capped(original_size_mb, res_parts, mode, target, preset, res) ==
    IF mode = "target_size" /\ Truthy(target)
    THEN IF FLess(original_size_mb, target) THEN original_size_mb ELSE target
    ELSE IF mode = "quality" /\ preset # ""
    THEN FMul(original_size_mb, compression_ratios(preset))
    ELSE IF mode = "resolution" /\ res # "" /\ preset # ""
    THEN estimate_resolution(original_size_mb, res_parts, res, preset)
    ELSE original_size_mb

\* the if / elif chain that sets estimated_size_mb
estimated_size(original_size_mb, res_parts, mode, target, preset, res) ==
    IF mode = "target_size" /\ Truthy(target)
    THEN target
    ELSE IF mode = "quality" /\ preset # ""
    THEN FMul(original_size_mb, compression_ratios(preset))
    ELSE IF mode = "resolution" /\ res # "" /\ preset # ""
    THEN estimate_resolution(original_size_mb, res_parts, res, preset)
    ELSE original_size_mb

Raised(err) == [error |-> err, original_size_mb |-> 0,
                estimated_size_mb |-> 0, reduction_percent |-> 0]

\* reduction_pct and the rounded dictionary
estimate_report(original_size_mb, estimated_size_mb) ==
    IF original_size_mb = Zero THEN Raised("ZeroDivisionError")
    ELSE [error |-> "none",
          original_size_mb |-> RoundDec(original_size_mb, 2),
          estimated_size_mb |-> RoundDec(estimated_size_mb, 2),
          reduction_percent |->
              RoundDec(FMul(FDiv(FSub(original_size_mb, estimated_size_mb),
                                 original_size_mb), FromInt(100)), 1)]

\* mutant: the module remembers its last estimate and reports it as the
\* original size of the next call
estimate_output_size_remembers(inf, mode, target, preset, res) ==
    IF inf.error # "none" THEN Raised(inf.error)
    ELSE LET original_size_mb == IntTrueDiv(inf.size, 1024 * 1024)
             rep == estimate_report(original_size_mb,
                        estimated_size(original_size_mb, inf.resolution,
                                       mode, target, preset, res))
         IN IF est_calls > 0 /\ est_result.error = "none" /\ rep.error = "none"
            THEN [rep EXCEPT !.original_size_mb = est_result.estimated_size_mb]
            ELSE rep

\* inf is what get_video_info returned (or raised)
estimate_output_size(inf, mode, target, preset, res) ==
    IF inf.error # "none" THEN Raised(inf.error)
    ELSE LET original_size_mb == IntTrueDiv(inf.size, 1024 * 1024)
         IN estimate_report(original_size_mb,
                estimated_size(original_size_mb, inf.resolution, mode,
                               target, preset, res))

\* mutant: the file is validated with a probe of its own before the probe
\* of get_video_info
estimate_invocations_validates(inf) == <<"ffprobe", "ffprobe">>

\* the external programs one call runs: the ffprobe of get_video_info
estimate_invocations(inf) == <<"ffprobe">>

\* one call: the probe, then the arithmetic; nothing else is touched
EstimateCall(inf, args) ==
    /\ est_calls' = est_calls + 1
    /\ est_invoked' = est_invoked \o estimate_invocations(inf)
    /\ est_args' = args
    /\ info' = inf
    /\ est_prev' = [info |-> info, result |-> est_result]
    /\ \E r \in {estimate_output_size(inf, args.mode, args.target_size_mb,
                                      args.quality_preset, args.resolution)} :
          /\ est_result' = r
          /\ result' = IF r.error = "none" THEN "ok" ELSE r.error
    /\ kind' = "estimate"
    /\ pc' = "done"
    /\ UNCHANGED <<num_parts, duration, split_times, split_vars,
                   compress_vars, aux_vars, env_vars>>

\* the first call of estimate_output_size
EstimateOutputSize(inf, mode, target, preset, res) ==
    /\ pc = "idle"
    /\ EstimateCall(inf, [mode |-> mode, target_size_mb |-> target,
                          quality_preset |-> preset, resolution |-> res])

\* a later call with the arguments of the call before
EstimateAgain(inf) ==
    /\ pc = "done" /\ kind = "estimate"
    /\ est_calls < MaxEstimateCalls
    /\ EstimateCall(inf, est_args)

NextEstimate ==
    \/ pc = "idle" /\
          \E inf \in Infos, mode \in EstimateModes, target \in EstimateTargets,
             preset \in EstimatePresets, res \in EstimateResolutions :
                EstimateOutputSize(inf, mode, target, preset, res)
    \/ \E inf \in Infos : EstimateAgain(inf)

SpecEstimate == Init /\ [][NextEstimate]_vars

(***************************************************************************)
(* format_duration                                                         *)
(***************************************************************************)
\* x // n and x % n for an int n > 0; both are exact in floating point, so
\* they are taken of the exact value of x
FFloorDiv(x, n) ==
    IF x[2] >= 0 THEN <<(x[1] * 2^x[2]) \div n, 0>>
    ELSE <<x[1] \div (n * 2^(0 - x[2])), 0>>

FMod(x, n) ==
    IF x[2] >= 0 THEN <<(x[1] * 2^x[2]) % n, 0>>
    ELSE <<x[1] % (n * 2^(0 - x[2])), x[2]>>

\* the format specification 02d
Pad2(n) == IF n >= 0 /\ n < 10 THEN "0" \o ToString(n) ELSE ToString(n)

\* mutant: the seconds are rounded to the nearest whole second
format_duration_rounds(seconds) ==
    LET hours == FTrunc(FFloorDiv(seconds, 3600))
        minutes == FTrunc(FFloorDiv(FMod(seconds, 3600), 60))
        secs == RoundDec(FMod(seconds, 60), 0)
    IN IF hours > 0
       THEN ToString(hours) \o ":" \o Pad2(minutes) \o ":" \o Pad2(secs)
       ELSE ToString(minutes) \o ":" \o Pad2(secs)

format_duration(seconds) ==
    LET hours == FTrunc(FFloorDiv(seconds, 3600))
        minutes == FTrunc(FFloorDiv(FMod(seconds, 3600), 60))
        secs == FTrunc(FMod(seconds, 60))
    IN IF hours > 0
       THEN ToString(hours) \o ":" \o Pad2(minutes) \o ":" \o Pad2(secs)
       ELSE ToString(minutes) \o ":" \o Pad2(secs)

\* the durations format_duration is tried on: every half second up to
\* MaxFormatSeconds, 125.4 to 8 binary places, and some long ones
FormatInputs ==
    {<<n, 0 - 1>> : n \in 0 .. (2 * MaxFormatSeconds)}
        \cup {<<32102, 0 - 8>>, <<35999, 0>>, <<36000, 0>>, <<86399, 0>>,
              <<360000, 0>>, <<719999, 0 - 1>>}

FormatDuration(seconds) ==
    /\ pc = "idle"
    /\ fmt_seconds' = seconds
    /\ fmt_result' = format_duration(seconds)
    /\ kind' = "format"
    /\ pc' = "done"
    /\ result' = "ok"
    /\ UNCHANGED <<num_parts, duration, split_times, split_vars,
                   compress_vars, est_vars, env_vars, probe_streams,
                   path_vars, conc_vars, req_vars, usage_vars>>

NextFormat == pc = "idle" /\ \E seconds \in FormatInputs : FormatDuration(seconds)

SpecFormat == Init /\ [][NextFormat]_vars

(***************************************************************************)
(* The probes called on their own: get_video_info and get_video_duration   *)
(***************************************************************************)
\* the entries of "streams" the probes are tried on; a video stream may lack
\* its dimensions, which the code reads as 0
StreamKinds ==
    {[codec_type |-> "audio", width |-> 0, height |-> 0],
     [codec_type |-> "video", width |-> 1920, height |-> 1080],
     [codec_type |-> "video", width |-> 1280, height |-> 720],
     [codec_type |-> "video", width |-> 0, height |-> 0]}

\* the "streams" lists: none, one or two streams
StreamLists ==
    {<< >>} \cup {<<a>> : a \in StreamKinds}
            \cup {<<a, b>> : a \in StreamKinds, b \in StreamKinds}

\* the loop over data.get("streams", []): width and height of the first video
\* stream, 0 and 0 when there is none
first_video_stream(streams) ==
    LET vids == {j \in 1 .. Len(streams) : streams[j].codec_type = "video"}
    IN IF vids = {} THEN <<0, 0>>
       ELSE LET j == CHOOSE x \in vids : \A y \in vids : x <= y
            IN <<streams[j].width, streams[j].height>>

\* get_video_info(video_path) on a file with these streams
GetVideoInfo(o, size, streams) ==
    /\ pc = "idle"
    /\ kind' = "info"
    /\ probe_streams' = streams
    /\ probe_outcome' = o
    /\ info' = get_video_info(o, size, first_video_stream(streams))
    /\ result' = IF info'.error = "none" THEN "ok" ELSE info'.error
    /\ pc' = "done"
    /\ UNCHANGED <<num_parts, duration, split_times, split_vars, compress_vars,
                   est_calls, est_args, est_result, est_prev, est_invoked,
                   fmt_vars, path_vars, conc_vars, req_vars, usage_vars,
                   tools_at_entry,
                   touched, tempdir>>

\* get_video_duration(video_path)
GetVideoDuration(o, d) ==
    /\ pc = "idle"
    /\ kind' = "duration"
    /\ probe_outcome' = o
    /\ LET g == get_video_duration(o, d) IN
        /\ duration' = g.duration
        /\ result' = IF g.error = "none" THEN "ok" ELSE g.error
    /\ pc' = "done"
    /\ UNCHANGED <<num_parts, split_times, split_vars, compress_vars, est_vars,
                   aux_vars, tools_at_entry, touched, tempdir>>

NextProbe ==
    \/ \E o \in ProbeOutcomes, size \in InfoSizes, streams \in StreamLists :
          GetVideoInfo(o, size, streams)
    \/ \E o \in ProbeOutcomes, d \in ProbeDurations : GetVideoDuration(o, d)

SpecProbe == Init /\ [][NextProbe]_vars

(***************************************************************************)
(* The request layer's paths (routers/video.py)                            *)
(***************************************************************************)
\* requests in flight at the same time
MaxRequests == 2

\* the largest part count of a split request
MaxPathParts == 3

\* names of the uploaded file, or of the local source: stem and extension
FileStems == {"a", "b"}
FileExtensions == {".mp4", ".mov"}

\* str(uuid.uuid4())[:8] of the k-th request: taken to differ from every other
unique_id(k) == "u" \o ToString(k)

\* settings.upload_dir / f"{unique_id}_{file.filename}"
input_path(uid, stem, ext) ==
    [dir |-> "uploads", name |-> uid \o "_" \o stem \o ext]

\* split_video's output_dir / f"{base_name}_part{i}{extension}", base_name the
\* stem of the video path
part_path(base_name, i, ext) ==
    [dir |-> "outputs", name |-> base_name \o "_part" \o ToString(i) \o ext]

\* settings.output_dir / f"{Path(file.filename).stem}_split.zip"
zip_path(stem) == [dir |-> "outputs", name |-> stem \o "_split.zip"]

\* settings.output_dir / f"{unique_id}_compressed_{file.filename}"
compressed_path(uid, stem, ext) ==
    [dir |-> "outputs", name |-> uid \o "_compressed_" \o stem \o ext]

\* POST /split: the upload, the parts of the upload, the archive
split_uploaded_video_paths(uid, stem, ext, parts) ==
    {input_path(uid, stem, ext), zip_path(stem)}
        \cup {part_path(uid \o "_" \o stem, i, ext) : i \in 1 .. parts}

\* POST /split-local: the parts of the local file, in settings.output_dir
split_local_video_paths(stem, ext, parts) ==
    {part_path(stem, i, ext) : i \in 1 .. parts}

\* POST /compress/target-size, /compress/quality, /compress/resolution
compress_video_paths(uid, stem, ext) ==
    {input_path(uid, stem, ext), compressed_path(uid, stem, ext)}

\* a request is accepted and gets the next unique id
Accept(req, paths) ==
    /\ pc = "idle"
    /\ Len(p_reqs) < MaxRequests
    /\ p_reqs' = Append(p_reqs, req)
    /\ p_paths' = Append(p_paths, paths)
    /\ UNCHANGED <<pc, kind, num_parts, duration, split_times, result,
                   split_vars, env_vars, compress_vars, est_vars, fmt_vars,
                   probe_streams, conc_vars, req_vars, usage_vars>>

AcceptSplit(stem, ext, parts) ==
    LET uid == unique_id(Len(p_reqs) + 1) IN
    Accept([endpoint |-> "/split", uid |-> uid, stem |-> stem, ext |-> ext,
            parts |-> parts],
           split_uploaded_video_paths(uid, stem, ext, parts))

AcceptSplitLocal(stem, ext, parts) ==
    Accept([endpoint |-> "/split-local", uid |-> "", stem |-> stem,
            ext |-> ext, parts |-> parts],
           split_local_video_paths(stem, ext, parts))

AcceptCompress(mode, stem, ext) ==
    LET uid == unique_id(Len(p_reqs) + 1) IN
    Accept([endpoint |-> "/compress/" \o mode, uid |-> uid, stem |-> stem,
            ext |-> ext, parts |-> 0],
           compress_video_paths(uid, stem, ext))

NextPaths ==
    \/ \E stem \in FileStems, ext \in FileExtensions,
          parts \in MIN_PARTS .. MaxPathParts : AcceptSplit(stem, ext, parts)
    \/ \E stem \in FileStems, ext \in FileExtensions,
          parts \in MIN_PARTS .. MaxPathParts :
             AcceptSplitLocal(stem, ext, parts)
    \/ \E mode \in {"target-size", "quality", "resolution"},
          stem \in FileStems, ext \in FileExtensions :
             AcceptCompress(mode, stem, ext)

SpecPaths == Init /\ [][NextPaths]_vars

(***************************************************************************)
(* split_video called by several workers over one filesystem               *)
(***************************************************************************)
\* part counts of the concurrent splits
ConcParts == {MIN_PARTS, MIN_PARTS + 1}

\* everything the concurrent splits leave alone
conc_frame == <<pc, kind, num_parts, duration, split_times, result, split_vars,
                env_vars, compress_vars, est_vars, fmt_vars, probe_streams,
                path_vars, req_vars, usage_vars>>

\* worker w calls split_video on a video whose parts go to base path b; the
\* plan has n parts
ConcSplitVideo(w, b, n, usc) ==
    /\ pc = "idle"
    /\ c_op[w].pc = "idle"
    /\ c_op' = [c_op EXCEPT ![w] =
          [NoOperation EXCEPT !.pc = first_strategy(usc), !.base = b,
                              !.num_parts = n, !.use_stream_copy = usc,
                              !.part_i = 1]]
    /\ UNCHANGED <<c_files, c_owner, c_foreign_deleted, conc_frame>>

\* worker w's loop moves to nx after a strategy call on part k
ConcMove(w, k, nx) ==
    LET op == c_op[w]
        b == op.base
    IN /\ c_files' = [c_files EXCEPT ![b] = nx.files]
       /\ c_owner' = [c_owner EXCEPT ![b] =
             [j \in Parts |-> IF nx.files[j] = Absent THEN 0
                              ELSE IF j = k THEN w ELSE c_owner[b][j]]]
       /\ c_foreign_deleted' =
             (c_foreign_deleted
                 \/ \E j \in Parts : /\ c_files[b][j] # Absent
                                      /\ c_owner[b][j] # w
                                      /\ nx.files[j] = Absent)
       /\ c_op' = [c_op EXCEPT ![w] =
             [op EXCEPT !.pc = nx.pc, !.part_i = nx.part_i,
                        !.output_paths = nx.output_paths,
                        !.result = nx.result, !.returned = nx.returned,
                        !.intact = \A j \in 1 .. Len(nx.returned) :
                                      nx.files[nx.returned[j]] # Absent]]
       /\ UNCHANGED conc_frame

ConcStreamCopy(w, o, left) ==
    /\ pc = "idle"
    /\ c_op[w].pc = "split_copy"
    /\ LET op == c_op[w]
           fs == c_files[op.base]
           r == split_segment_stream_copy(fs[op.part_i], o, left)
       IN ConcMove(w, op.part_i,
                   after_stream_copy(r.success, op.part_i, op.num_parts,
                                     op.use_stream_copy, op.output_paths,
                                     [fs EXCEPT ![op.part_i] = r.file]))

ConcReencode(w, o, left) ==
    /\ pc = "idle"
    /\ c_op[w].pc = "split_reencode"
    /\ LET op == c_op[w]
           fs == c_files[op.base]
           r == split_segment_reencode(fs[op.part_i], o, left)
       IN ConcMove(w, op.part_i,
                   after_reencode(r.success, op.part_i, op.num_parts,
                                  op.use_stream_copy, op.output_paths,
                                  [fs EXCEPT ![op.part_i] = r.file]))

NextConcurrent ==
    \/ \E w \in Workers, b \in BasePaths, n \in ConcParts, usc \in BOOLEAN :
          ConcSplitVideo(w, b, n, usc)
    \/ \E w \in Workers, o \in RunOutcomes, left \in SegmentLeft :
          ConcStreamCopy(w, o, left)
    \/ \E w \in Workers, o \in RunOutcomes, left \in SegmentLeft :
          ConcReencode(w, o, left)

SpecConcurrent == Init /\ [][NextConcurrent]_vars

(***************************************************************************)
(* The split and compress endpoints (routers/video.py)                     *)
(***************************************************************************)
Endpoints ==
    {"/split", "/compress/target-size", "/compress/quality",
     "/compress/resolution"}

CompressEndpoints == Endpoints \ {"/split"}

\* the `parts` values posted to /split
RequestParts == {1} \cup (MIN_PARTS .. MaxPathParts) \cup {MAX_PARTS + 1}

\* the target sizes posted to /compress/target-size
RequestSizes == TargetSizes \cup {Zero}

\* how the engine call of an endpoint can end: its return, or the exception
\* it raises; compress_quality and compress_resolution run no probe
engine_outcomes(endpoint) ==
    IF endpoint \in {"/split", "/compress/target-size"}
    THEN {"ok", "RuntimeError", "ValueError", "FileNotFoundError"}
    ELSE {"ok", "RuntimeError", "ValueError"}

\* how create_video_zip can end
ZipOutcomes == {"ok", "OSError"}

\* the checks of the form fields made before the upload is saved
parameter_rejected(endpoint, parts, size_mb, preset, res) ==
    CASE endpoint = "/split" -> parts < MIN_PARTS \/ parts > MAX_PARTS
      [] endpoint = "/compress/target-size" -> FLeq(size_mb, Zero)
      [] endpoint = "/compress/quality" ->
            Lower(preset) \notin {"low", "medium", "high"}
      [] OTHER ->
            \/ res \notin {"2160p", "1440p", "1080p", "720p", "480p", "360p"}
            \/ Lower(preset) \notin {"low", "medium", "high"}

\* validate_video_file on the saved upload: the probe worked and duration > 0
validate_video_file(g) == g.error = "none" /\ FLess(Zero, g.duration)

\* the except clauses of the handlers: /split has `except HTTPException:
\* raise` and `except Exception` (500); the compress endpoints have `except
\* ValueError` (400) and `except Exception` (500)
surfaced_status(endpoint, exc) ==
    IF endpoint = "/split"
    THEN IF exc = "HTTPException:400" THEN 400 ELSE 500
    ELSE IF exc = "ValueError" THEN 400 ELSE 500

\* the handler ends with `status`
Answer(status, cause) ==
    /\ r_pc' = "done"
    /\ r_status' = status
    /\ r_cause' = cause

\* everything a request leaves alone
req_frame == <<pc, kind, num_parts, duration, split_times, result, split_vars,
               env_vars, compress_vars, est_vars, fmt_vars, probe_streams,
               path_vars, conc_vars, usage_vars>>

\* the handler up to the saved upload
RequestEntry(endpoint, o, parts, size_mb, preset, res) ==
    /\ pc = "idle"
    /\ r_pc = "idle"
    /\ r_endpoint' = endpoint
    /\ r_parts' = IF endpoint = "/split" THEN parts ELSE 0
    /\ IF ~check_ffmpeg_installed(o)
       THEN Answer(503, "ffmpeg_not_installed") /\ UNCHANGED r_input
       ELSE IF parameter_rejected(endpoint, parts, size_mb, preset, res)
       THEN Answer(400, "parameter") /\ UNCHANGED r_input
       ELSE /\ r_pc' = "validate"
            /\ r_input' = TRUE
            /\ UNCHANGED <<r_status, r_cause>>
    /\ UNCHANGED <<r_probe, r_segments, r_zip, r_output, req_frame>>

\* validate_video_file, and on failure the unlink and the HTTPException(400)
\* raised inside the try block
RequestValidate(o, d) ==
    /\ pc = "idle"
    /\ r_pc = "validate"
    /\ r_probe' = get_video_duration(o, d)
    /\ IF validate_video_file(r_probe')
       THEN r_pc' = "engine" /\ UNCHANGED <<r_status, r_cause, r_input>>
       ELSE /\ r_input' = FALSE
            /\ Answer(surfaced_status(r_endpoint, "HTTPException:400"),
                      "invalid_video")
    /\ UNCHANGED <<r_endpoint, r_parts, r_segments, r_zip, r_output, req_frame>>

\* the engine call: split_video leaves all the parts or none, a compress
\* function leaves the output or nothing
RequestEngine(outcome) ==
    /\ pc = "idle"
    /\ r_pc = "engine"
    /\ outcome \in engine_outcomes(r_endpoint)
    /\ IF outcome = "ok"
       THEN IF r_endpoint = "/split"
            THEN /\ r_pc' = "zip"
                 /\ r_segments' = r_parts
                 /\ UNCHANGED <<r_status, r_cause, r_input, r_output>>
            ELSE /\ r_output' = TRUE
                 /\ r_input' = FALSE
                 /\ Answer(200, "none")
                 /\ UNCHANGED r_segments
       ELSE /\ r_input' = FALSE
            /\ Answer(surfaced_status(r_endpoint, outcome), outcome)
            /\ UNCHANGED <<r_segments, r_output>>
    /\ UNCHANGED <<r_endpoint, r_parts, r_probe, r_zip, req_frame>>

\* create_video_zip and the end of /split; `created`: the archive file was
\* opened for writing before the failure
RequestZip(zo, created) ==
    /\ pc = "idle"
    /\ r_pc = "zip"
    /\ IF zo = "ok"
       THEN /\ r_zip' = "complete"
            /\ r_input' = FALSE
            /\ r_segments' = 0
            /\ Answer(200, "none")
       ELSE /\ r_zip' = IF created THEN "partial" ELSE "absent"
            /\ r_input' = FALSE
            /\ Answer(surfaced_status(r_endpoint, zo), "create_video_zip")
            /\ UNCHANGED r_segments
    /\ UNCHANGED <<r_endpoint, r_parts, r_probe, r_output, req_frame>>

NextRequest ==
    \/ \E endpoint \in Endpoints, o \in RunOutcomes, parts \in RequestParts,
          size_mb \in RequestSizes, preset \in PresetInputs,
          res \in ResolutionInputs :
             RequestEntry(endpoint, o, parts, size_mb, preset, res)
    \/ \E o \in ProbeOutcomes, d \in ProbeDurations : RequestValidate(o, d)
    \/ \E outcome \in engine_outcomes("/split") : RequestEngine(outcome)
    \/ \E zo \in ZipOutcomes, created \in BOOLEAN : RequestZip(zo, created)

SpecRequest == Init /\ [][NextRequest]_vars

(***************************************************************************)
(* The usage tracker and the decorator (usage_tracker.py, usage_check.py)  *)
(***************************************************************************)
\* self.free_daily_limit
FREE_DAILY_LIMIT == 5
\* self.free_file_size_limit_mb
FREE_FILE_SIZE_LIMIT_MB == 25
\* the Pro limit of can_process
PRO_FILE_SIZE_LIMIT_MB == 500
\* `hours_since_reset >= 24`
RESET_HOURS == 24
\* `cutoff_time = time.time() - (48 * 3600)`
CLEANUP_HOURS == 48

\* the clock moves in steps of TickHours, up to MaxTicks steps
TickHours == 24
MaxTicks == 3

\* the file_size_mb the endpoints' decorators pass
DecoratorSizes == {0, 25}

\* the statuses a decorated handler ends with
HandlerStatuses == {200, 400, 500, 503}

\* _cleanup_old_data: entries whose last_reset is more than 48 hours old go
cleanup_old_data(data, now) ==
    [ip \in DOMAIN data |->
        IF data[ip] # NoRecord /\ data[ip].last_reset < now - CLEANUP_HOURS
        THEN NoRecord ELSE data[ip]]

\* _get_user_data: create the entry if missing, reset the count if the
\* last reset is 24 hours old or older
get_user_data(data, ip, now) ==
    LET made == IF data[ip] = NoRecord
                THEN [data EXCEPT ![ip] = [count |-> 0, last_reset |-> now,
                                           is_pro |-> FALSE]]
                ELSE data
    IN IF now - made[ip].last_reset >= RESET_HOURS
       THEN [made EXCEPT ![ip].count = 0, ![ip].last_reset = now]
       ELSE made

\* what can_process answers for the entry: Pro by size only, free by size
\* and by count
allowed(user_data, file_size_mb) ==
    IF user_data.is_pro THEN ~(file_size_mb > PRO_FILE_SIZE_LIMIT_MB)
    ELSE /\ ~(file_size_mb > FREE_FILE_SIZE_LIMIT_MB)
         /\ ~(user_data.count >= FREE_DAILY_LIMIT)

\* mutant: the limit test is `count > free_daily_limit`
can_process_one_more(data, ip, file_size_mb, now) ==
    LET d == get_user_data(cleanup_old_data(data, now), ip, now)
    IN [data |-> d,
        allowed |-> IF d[ip].is_pro
                    THEN ~(file_size_mb > PRO_FILE_SIZE_LIMIT_MB)
                    ELSE /\ ~(file_size_mb > FREE_FILE_SIZE_LIMIT_MB)
                         /\ ~(d[ip].count > FREE_DAILY_LIMIT)]

\* can_process: the cleanup, the entry, the verdict
can_process(data, ip, file_size_mb, now) ==
    LET d == get_user_data(cleanup_old_data(data, now), ip, now)
    IN [data |-> d, allowed |-> allowed(d[ip], file_size_mb)]

\* increment_usage
increment_usage(data, ip, now) ==
    LET d == get_user_data(data, ip, now)
    IN IF ~d[ip].is_pro THEN [d EXCEPT ![ip].count = @ + 1] ELSE d

\* set_pro_status
set_pro_status(data, ip, is_pro, now) ==
    [get_user_data(data, ip, now) EXCEPT ![ip].is_pro = is_pro]

\* everything the tracker leaves alone
usage_frame == <<pc, kind, num_parts, duration, split_times, result,
                 split_vars, env_vars, compress_vars, est_vars, fmt_vars,
                 probe_streams, path_vars, conc_vars, req_vars>>

\* one request through require_usage_limit, whose decorator was given one
\* of DecoratorSizes: can_process, then 429, or increment_usage and the
\* handler, which ends with one of HandlerStatuses
UsageRequest(ip) ==
    /\ pc = "idle"
    /\ \E cp \in {can_process(u_data, ip, file_size_mb, u_now) :
                      file_size_mb \in DecoratorSizes} :
       \E status \in (IF cp.allowed THEN HandlerStatuses ELSE {429}) :
        /\ u_data' = IF cp.allowed THEN increment_usage(cp.data, ip, u_now)
                     ELSE cp.data
        /\ u_last' = [ip |-> ip, granted |-> u_granted[ip],
                      is_pro |-> cp.data[ip].is_pro,
                      count_before |-> cp.data[ip].count,
                      count_after |-> u_data'[ip].count,
                      status |-> status,
                      ran |-> cp.allowed]
    /\ UNCHANGED <<u_now, u_granted, usage_frame>>

\* the payment router calls set_pro_status
UsageSetProStatus(ip, is_pro) ==
    /\ pc = "idle"
    /\ u_data' = set_pro_status(u_data, ip, is_pro, u_now)
    /\ u_granted' = [u_granted EXCEPT ![ip] = is_pro]
    /\ UNCHANGED <<u_now, u_last, usage_frame>>

\* GET usage statistics: get_usage_stats goes through _get_user_data
UsageStats(ip) ==
    /\ pc = "idle"
    /\ u_data' = get_user_data(u_data, ip, u_now)
    /\ UNCHANGED <<u_now, u_granted, u_last, usage_frame>>

\* time passes
UsageTick ==
    /\ pc = "idle"
    /\ u_now + TickHours <= MaxTicks * TickHours
    /\ u_now' = u_now + TickHours
    /\ UNCHANGED <<u_data, u_granted, u_last, usage_frame>>

NextUsage ==
    \/ \E ip \in ClientIPs : UsageRequest(ip)
    \/ \E ip \in ClientIPs, is_pro \in BOOLEAN : UsageSetProStatus(ip, is_pro)
    \/ \E ip \in ClientIPs : UsageStats(ip)
    \/ UsageTick

SpecUsage == Init /\ [][NextUsage]_vars

Next ==
    \/ \E d \in ProbeDurations, n \in SplitParts : PlanSplit(d, n)
    \/ \E n \in SplitParts, usc \in BOOLEAN, o \in RunOutcomes,
          tools \in SUBSET Tools : SplitVideoEntry(n, usc, o, tools)
    \/ \E o \in ProbeOutcomes, d \in ProbeDurations : SplitProbe(o, d)
    \/ \E o \in RunOutcomes, left \in SegmentLeft : SplitStreamCopy(o, left)
    \/ \E o \in RunOutcomes, left \in SegmentLeft : SplitReencode(o, left)
    \/ \E t \in TargetSizes, o \in RunOutcomes, tools \in SUBSET Tools :
          CompressTargetSizeEntry(t, o, tools)
    \/ \E o \in ProbeOutcomes, d \in ProbeDurations : TargetSizeProbe(o, d)
    \/ \E o \in RunOutcomes : TargetSizePass1(o)
    \/ \E o \in RunOutcomes, left \in OutputLeft : TargetSizePass2(o, left)
    \/ \E p \in PresetInputs, o \in RunOutcomes, tools \in SUBSET Tools :
          CompressQualityEntry(p, o, tools)
    \/ \E r \in ResolutionInputs, p \in PresetInputs, o \in RunOutcomes,
          tools \in SUBSET Tools : CompressResolutionEntry(r, p, o, tools)
    \/ \E o \in RunOutcomes, left \in OutputLeft : SinglePassEncode(o, left)

Spec == Init /\ [][Next]_vars

(***************************************************************************)
(* Split planning (calculate_split_times as a pure function)               *)
(***************************************************************************)
PlanMade == kind = "plan" /\ result = "ok"

ValidPlanInput ==
    /\ num_parts >= MIN_PARTS /\ num_parts <= MAX_PARTS
    /\ FLess(Zero, duration)

StartOf(k) == split_times[k][1]
EndOf(k) == split_times[k][2]

\* the shape every plan of a valid input has, whatever the last end is
PlanShape ==
    /\ Len(split_times) = num_parts
    /\ StartOf(1) = Zero
    /\ \A k \in 1 .. num_parts :
          FLeq(Zero, StartOf(k)) /\ FLess(StartOf(k), EndOf(k))
    /\ \A k \in 1 .. (num_parts - 1) :
          EndOf(k) = StartOf(k + 1) /\ FLess(StartOf(k), StartOf(k + 1))

\* |x - d| <= d * 2^(1 - MantBits): x is d up to one rounding step
WithinOneRounding(x, d) ==
    LET lo == IF x[2] < d[2] THEN x[2] ELSE d[2]
        diff == Abs(x[1] * 2^(x[2] - lo) - d[1] * 2^(d[2] - lo))
    IN diff * 2^(MantBits - 1) <= d[1] * 2^(d[2] - lo)

\* C1 (as stated): for parts in 2..20 and duration > 0 the plan has exactly
\* `parts` ranges, strictly increasing and contiguous, starts at 0, ends at
\* `duration`, and every range satisfies 0 <= start < end <= duration.
C1_PlanEndsExactlyAtDuration ==
    (PlanMade /\ ValidPlanInput) =>
        /\ PlanShape
        /\ EndOf(num_parts) = duration
        /\ \A k \in 1 .. num_parts : FLeq(EndOf(k), duration)

\* C1 (amended): same shape, but the last range ends at
\* parts * (duration / parts) as floating point evaluates it, which is
\* `duration` only up to one rounding step and can lie above it.
C1_PlanEndsWithinRounding ==
    (PlanMade /\ ValidPlanInput) =>
        /\ PlanShape
        /\ EndOf(num_parts) =
              FMul(FromInt(num_parts), FDiv(duration, FromInt(num_parts)))
        /\ WithinOneRounding(EndOf(num_parts), duration)

\* a valid plan whose last range ends above the duration
C1_Witness ==
    /\ PlanMade /\ ValidPlanInput
    /\ Len(split_times) = num_parts
    /\ FLess(duration, EndOf(num_parts))

\* C2: range i (0-indexed) is [i * part_duration, (i + 1) * part_duration]
\* with part_duration = duration / parts; duration 600 in 3 parts gives
\* (0,200), (200,400), (400,600).
C2_RangesAreMultiplesOfPartDuration ==
    PlanMade =>
        LET part_duration == FDiv(duration, FromInt(num_parts)) IN
        /\ Len(split_times) = num_parts
        /\ \A k \in 0 .. (num_parts - 1) :
              split_times[k + 1] = <<FMul(FromInt(k), part_duration),
                                     FMul(FromInt(k + 1), part_duration)>>
        /\ (duration = FromInt(600) /\ num_parts = 3) =>
              split_times = << <<Zero, FromInt(200)>>,
                               <<FromInt(200), FromInt(400)>>,
                               <<FromInt(400), FromInt(600)>> >>

C2_Witness ==
    /\ PlanMade /\ duration = FromInt(600) /\ num_parts = 3
    /\ Len(split_times) = 3
    /\ EndOf(3) = FromInt(600)

(***************************************************************************)
(* split_video and the compress operations                                 *)
(***************************************************************************)
InvalidParts == num_parts < MIN_PARTS \/ num_parts > MAX_PARTS

RECURSIVE SumUpTo(_, _)
SumUpTo(f, k) == IF k = 0 THEN 0 ELSE f[k] + SumUpTo(f, k - 1)

SegmentCalls == SumUpTo(copy_calls, MaxRunParts) + SumUpTo(reencode_calls, MaxRunParts)

\* encoder invocations of the operation, `ffmpeg -version` not counted
EncoderCalls == SegmentCalls + pass1_calls + pass2_calls + encode_calls

FileThere(k) == files[k] # Absent

UpTo(n) == [j \in 1 .. n |-> j]

\* C3: for every duration, planning a split with parts < 2 or parts > 20
\* fails with an invalid-input error and makes no plan; split_video with
\* such a part count ends in an error with no probe and no encoder
\* invocation made.
C3_InvalidPartsRejected ==
    /\ (kind = "plan" /\ InvalidParts) =>
          /\ result \in {"ValueError:parts_min", "ValueError:parts_max"}
          /\ split_times = NoTimes
    /\ (kind = "split" /\ InvalidParts) =>
          /\ pc = "done"
          /\ result \in {"ValueError:parts", "RuntimeError:ffmpeg"}
          /\ split_times = NoTimes
          /\ probes = 0
          /\ EncoderCalls = 0

C3_Witness ==
    /\ kind = "split" /\ num_parts = MAX_PARTS + 1
    /\ result = "ValueError:parts" /\ probes = 0

\* C4: a probed duration of 0 is invalid input: no plan is made from it
\* (no ranges with start = end), no encoder is invoked, and the operation
\* ends with an invalid-input error.
C4_ZeroDurationIsInvalidInput ==
    duration = Zero =>
        /\ split_times = NoTimes
        /\ EncoderCalls = 0
        /\ pc = "done" =>
              result \in {"ValueError:duration", "ValueError:parts",
                          "ValueError:parts_min", "ValueError:parts_max"}

\* C5: a strategy accepts a segment only if the encoder exited 0 and the
\* output file exists and is larger than 1000 bytes (exactly 1000 is
\* rejected); otherwise it reports failure and the file is gone.
C5_SegmentAcceptedOnlyIfPlausible ==
    last.strategy # "none" =>
        /\ last.accepted <=>
              (last.outcome = "exit0" /\ last.size # Absent /\ last.size > 1000)
        /\ ~last.accepted => ~FileThere(last.part)
        /\ (last.accepted /\ result \in {"none", "ok"}) =>
              files[last.part] = last.size

\* a run that exits 0 and leaves exactly 1000 bytes, rejected
C5_Witness ==
    /\ last.strategy = "reencode" /\ last.outcome = "exit0"
    /\ last.size = 1000 /\ ~last.accepted
    /\ ~FileThere(last.part)

\* C6: with use_stream_copy (the default), the re-encode of a part is
\* invoked if and only if the stream copy of that part was attempted
\* before and rejected; a part whose stream copy was accepted is never
\* re-encoded.
C6_ReencodeIffCopyRejected ==
    (kind = "split" /\ use_stream_copy) =>
        \A k \in Parts :
            /\ reencode_calls[k] > 0 =>
                  copy_calls[k] = 1 /\
                  copy_result[k] \in {"rejected", "rejected_small"}
            /\ copy_result[k] \in {"rejected", "rejected_small"} =>
                  \/ reencode_calls[k] = 1
                  \/ pc = "split_reencode" /\ part_i = k /\ reencode_calls[k] = 0
            /\ copy_result[k] = "accepted" => reencode_calls[k] = 0

\* a stream copy that exited 0 with a file of at most 1000 bytes, re-encoded
C6_Witness ==
    /\ kind = "split" /\ use_stream_copy
    /\ \E k \in Parts :
          /\ copy_result[k] = "rejected_small" /\ reencode_calls[k] = 1
          /\ last.strategy = "reencode" /\ last.part = k

\* C7: when both strategies fail for part k, split_video raises an error
\* naming k and none of the output files 1..N exists: the accepted parts
\* 1..k-1 are deleted, part k is deleted, no later part was attempted.
C7_FailureRollsBack ==
    /\ (kind = "split" /\ last.strategy = "reencode" /\ ~last.accepted) =>
          /\ pc = "done" /\ result = "ValueError:split_part"
          /\ failed_part = last.part
    /\ (kind = "split" /\ result = "ValueError:split_part") =>
          /\ failed_part = part_i
          /\ reencode_calls[failed_part] = 1
          /\ Len(output_paths) = failed_part - 1
          /\ \A k \in Parts : ~FileThere(k)
          /\ \A k \in Parts :
                k > failed_part => copy_calls[k] = 0 /\ reencode_calls[k] = 0

\* part 3 of 5 fails both strategies after parts 1 and 2 were accepted
C7_Witness ==
    /\ kind = "split" /\ num_parts = 5 /\ result = "ValueError:split_part"
    /\ failed_part = 3 /\ output_paths = <<1, 2>>
    /\ copy_calls[3] = 1 /\ reencode_calls[3] = 1
    /\ \A k \in Parts : ~FileThere(k)

\* C8: parts are processed in increasing index order: a part is attempted
\* only after every earlier part was accepted, the accepted parts are
\* always exactly 1..k, and nothing is attempted after the first part that
\* fails both strategies.
C8_InOrderWithoutGap ==
    kind = "split" =>
        /\ output_paths = UpTo(Len(output_paths))
        /\ \A k \in Parts :
              (copy_calls[k] + reencode_calls[k] > 0) =>
                  Len(output_paths) >= k - 1
        /\ result \in {"none", "ok"} =>
              \A k \in Parts :
                  FileThere(k) <=> k <= Len(output_paths)
        /\ failed_part # 0 =>
              \A k \in Parts :
                  k > failed_part => copy_calls[k] + reencode_calls[k] = 0

\* part 2 of a longer plan failed, part 1 had been accepted, part 3 untouched
C8_Witness ==
    /\ kind = "split" /\ num_parts >= 3 /\ failed_part = 2
    /\ output_paths = <<1>>
    /\ copy_calls[3] + reencode_calls[3] = 0

\* C9: split_video returns exactly `parts` paths, in order 1..parts, each
\* an existing file larger than 1000 bytes, or it raises and returns
\* nothing; it never returns fewer than `parts` entries.
C9_AllOrNothing ==
    /\ (kind = "split" /\ pc = "done") =>
          \/ /\ result = "ok"
             /\ returned = UpTo(num_parts)
             /\ \A k \in 1 .. num_parts : FileThere(k) /\ files[k] > 1000
          \/ /\ result \notin {"ok", "none"}
             /\ returned = << >>
    /\ (kind = "split" /\ result = "none") =>
          /\ returned = << >>
          /\ \A j \in 1 .. Len(output_paths) :
                FileThere(output_paths[j]) /\ files[output_paths[j]] > 1000

C9_Witness ==
    /\ kind = "split" /\ pc = "done" /\ result = "ok"
    /\ num_parts = 3 /\ returned = <<1, 2, 3>>
    /\ reencode_calls[2] = 1

\* C10: nothing is retried: each strategy runs at most once per part (at
\* most 2 encoder invocations per part, 2 * parts per split), and each
\* encode pass of a compression runs at most once.
C10_NoRetry ==
    /\ \A k \in Parts : copy_calls[k] <= 1 /\ reencode_calls[k] <= 1
    /\ SegmentCalls <= 2 * num_parts \/ kind # "split"
    /\ kind # "split" => SegmentCalls = 0
    /\ pass1_calls <= 1 /\ pass2_calls <= 1 /\ encode_calls <= 1
    /\ kind \in {"quality", "resolution"} => pass1_calls + pass2_calls = 0
    /\ kind = "target_size" => encode_calls = 0

\* a split in which one part needed both strategies and both failed
C10_Witness ==
    /\ kind = "split" /\ pc = "done" /\ result = "ValueError:split_part"
    /\ copy_calls[failed_part] = 1 /\ reencode_calls[failed_part] = 1
    /\ copy_result[failed_part] = "rejected"

(***************************************************************************)
(* Timeouts, the target-size bitrate and the compression passes            *)
(***************************************************************************)
CompressKinds == {"target_size", "quality", "resolution"}

CompressionErrors == {"ValueError:compress_failed", "ValueError:timeout"}

\* C11: a timed-out encoder invocation is handled like a failed one and
\* leaves no artifact: a stream-copy timeout deletes that segment's output
\* and the re-encode of the same part comes next, a re-encode timeout ends
\* the split with every output file rolled back, and a timeout in any
\* compression pass ends the operation with a compression error and the
\* output file deleted.
C11_TimeoutIsFailureWithoutArtifact ==
    /\ (last.strategy = "copy" /\ last.outcome = "timeout") =>
          /\ ~last.accepted
          /\ copy_result[last.part] = "rejected"
          /\ ~FileThere(last.part)
          /\ pc = "split_reencode" /\ part_i = last.part /\ result = "none"
          /\ reencode_calls[last.part] = 0
    /\ (last.strategy = "reencode" /\ last.outcome = "timeout") =>
          /\ ~last.accepted
          /\ pc = "done" /\ result = "ValueError:split_part"
          /\ failed_part = last.part
          /\ returned = << >>
          /\ \A k \in Parts : ~FileThere(k)
    /\ \A j \in 1 .. Len(runs) :
          runs[j].outcome = "timeout" =>
              /\ j = Len(runs)
              /\ pc = "done" /\ result \in CompressionErrors
              /\ out_file = Absent

\* a quality or resolution encode that timed out with a partial file
\* written, which is gone when the operation has raised
C11_Witness ==
    /\ kind \in {"quality", "resolution"} /\ Len(runs) = 1
    /\ runs[1].outcome = "timeout" /\ runs[1].size = 5000
    /\ pc = "done" /\ result = "ValueError:timeout" /\ out_file = Absent

\* C12: in target-size mode the video bitrate is
\* target_size_mb * 8192 / duration - 128; the operation raises the
\* target-too-small error exactly when that value is below 100 (exactly 100
\* is accepted), and then no encode pass was invoked; 10 MB over 600 s gives
\* about 8.5 and fails.
C12_TargetTooSmallExactlyBelowFloor ==
    (kind = "target_size" /\ duration # NoDuration /\ duration # Zero) =>
        /\ target_bitrate_kbps =
              FSub(FDiv(FMul(target_size_mb, FromInt(8192)), duration),
                   FromInt(128))
        /\ (result = "ValueError:too_small") <=>
              FLess(target_bitrate_kbps, FromInt(100))
        /\ result = "ValueError:too_small" =>
              pc = "done" /\ pass1_calls = 0 /\ pass2_calls = 0 /\ runs = << >>
        /\ FLeq(FromInt(100), target_bitrate_kbps) =>
              pc \in {"ts_pass1", "ts_pass2", "done"}
        /\ (target_size_mb = FromInt(10) /\ duration = FromInt(600)) =>
              /\ FLeq(FromInt(8), target_bitrate_kbps)
              /\ FLeq(target_bitrate_kbps, FromInt(9))
              /\ result = "ValueError:too_small"

\* 57 MB over 2048 s is exactly 100 kbps of video, and pass 1 has run
C12_Witness ==
    /\ kind = "target_size" /\ target_size_mb = FromInt(57)
    /\ duration = FromInt(2048) /\ target_bitrate_kbps = FromInt(100)
    /\ pass1_calls = 1

\* C13: pass 2 is invoked only after pass 1 has ended with exit status 0;
\* when pass 1 fails or times out the operation raises a compression error
\* and pass 2 is never invoked.
C13_Pass2OnlyAfterPass1Exit0 ==
    /\ pass2_calls > 0 => pass1_calls = 1
    /\ \A j \in 1 .. Len(runs) :
          runs[j].pass = "pass2" =>
              j = 2 /\ runs[1].pass = "pass1" /\ runs[1].outcome = "exit0"
    /\ (Len(runs) >= 1 /\ runs[1].pass = "pass1" /\ runs[1].outcome # "exit0") =>
          /\ pc = "done" /\ result = "ValueError:compress_failed"
          /\ pass2_calls = 0 /\ Len(runs) = 1
    /\ (Len(runs) >= 1 /\ runs[1].pass = "pass1" /\ runs[1].outcome = "exit0") =>
          pc = "ts_pass2" \/ pass2_calls = 1

\* pass 1 exited with a non-zero status and the operation is over
C13_Witness ==
    /\ kind = "target_size" /\ pc = "done" /\ Len(runs) = 1
    /\ runs[1].pass = "pass1" /\ runs[1].outcome = "exit1"
    /\ pass2_calls = 0 /\ result = "ValueError:compress_failed"

\* C14: in all three compression modes, when an encoder invocation ends
\* unsuccessfully (non-zero exit, timeout, not started) or the output file
\* is missing after the encode, the operation raises a compression error
\* and the output path does not exist; the operation returns the output
\* path only when the final encode exited 0 and the output file exists.
C14_FailureLeavesNoOutput ==
    kind \in CompressKinds =>
        /\ \A j \in 1 .. Len(runs) :
              (\/ runs[j].outcome # "exit0"
               \/ runs[j].pass # "pass1" /\ runs[j].size = Absent) =>
                  /\ j = Len(runs)
                  /\ pc = "done" /\ result \in CompressionErrors
                  /\ out_file = Absent
        /\ (pc = "done" /\ result = "ok") =>
              /\ Len(runs) >= 1
              /\ runs[Len(runs)].pass \in {"pass2", "encode"}
              /\ runs[Len(runs)].outcome = "exit0"
              /\ out_file # Absent /\ out_file = runs[Len(runs)].size
        /\ (pc = "done" /\ result # "ok") => out_file = Absent

\* pass 2 exited with a non-zero status and left a partial file, deleted
C14_Witness ==
    /\ kind = "target_size" /\ pc = "done" /\ Len(runs) = 2
    /\ runs[2].pass = "pass2" /\ runs[2].outcome = "exit1"
    /\ runs[2].size = 5000
    /\ result = "ValueError:compress_failed" /\ out_file = Absent

\* C15: the preset gives the constant-quality factor low -> 28,
\* medium -> 23, high -> 18, whatever the case of its letters, and quality
\* mode and resolution mode give the encoder the same factor for the same
\* preset.
C15_PresetToCrf ==
    (kind \in {"quality", "resolution"} /\ (pc = "encode" \/ encode_calls > 0)) =>
        /\ quality_preset \in {"low", "LOW"} => crf = 28
        /\ quality_preset = "medium" => crf = 23
        /\ quality_preset \in {"high", "High"} => crf = 18

\* resolution mode, preset written in capitals, encoded with factor 28
C15_Witness ==
    /\ kind = "resolution" /\ quality_preset = "LOW" /\ crf = 28
    /\ height = 720 /\ encode_calls = 1

\* C16: compress_quality and compress_resolution reject a preset that is
\* not low, medium or high as invalid input, and no encoder invocation is
\* made for it.
C16_InvalidPresetRejected ==
    (/\ kind \in {"quality", "resolution"}
     /\ quality_preset \notin {"low", "medium", "high", "LOW", "High"}) =>
        /\ pc # "encode"
        /\ encode_calls = 0
        /\ pc = "done" =>
              result \in {"ValueError:preset", "ValueError:resolution",
                          "RuntimeError:ffmpeg"}

(***************************************************************************)
(* Size estimates                                                          *)
(***************************************************************************)
EstimateMade(mode) ==
    /\ kind = "estimate" /\ est_args.mode = mode
    /\ info.error = "none" /\ info.size > 0

KnownPreset == est_args.quality_preset \in {"low", "medium", "High"}

\* the ratio the specification gives for a preset
RatioOf(preset) ==
    CASE preset = "low" -> Tenths(3)
      [] preset = "medium" -> Tenths(5)
      [] preset = "High" -> Tenths(7)

OriginalMB == IntTrueDiv(info.size, 1048576)

\* (original - estimated) / original * 100, to one decimal
ReductionOf(original, estimated) ==
    RoundDec(FMul(FDiv(FSub(original, estimated), original), FromInt(100)), 1)

\* C17: the quality-mode estimate is original size * ratio with ratio low
\* 0.3, medium 0.5, high 0.7, and the reduction is
\* (original - estimated) / original * 100, both as the rounded figures
\* the call returns; an original of 100 MB with preset medium gives an
\* estimate of 50.0 MB and a reduction of 50.0 percent.
C17_QualityEstimate ==
    (EstimateMade("quality") /\ KnownPreset) =>
        LET estimated == FMul(OriginalMB, RatioOf(est_args.quality_preset)) IN
        /\ est_result.error = "none"
        /\ est_result.estimated_size_mb = RoundDec(estimated, 2)
        /\ est_result.reduction_percent = ReductionOf(OriginalMB, estimated)
        /\ (info.size = 100 * 2^20 /\ est_args.quality_preset = "medium") =>
              /\ est_result.original_size_mb = 10000
              /\ est_result.estimated_size_mb = 5000
              /\ est_result.reduction_percent = 500
        /\ est_args.quality_preset = "low" => est_result.reduction_percent > 500
        /\ est_args.quality_preset = "High" => est_result.reduction_percent < 500

\* 100 MB, preset medium: 50.00 MB and 50.0 percent
C17_Witness ==
    /\ EstimateMade("quality") /\ info.size = 100 * 2^20
    /\ est_args.quality_preset = "medium"
    /\ est_result.estimated_size_mb = 5000
    /\ est_result.reduction_percent = 500

\* C18: the resolution-mode estimate is
\* original * (target height / current height)^2 * quality ratio with the
\* ratio table of quality mode, and it is original * 0.5 whenever the
\* probe reports the current resolution as unknown, whatever preset and
\* height are requested.
C18_ResolutionEstimate ==
    /\ (/\ EstimateMade("resolution") /\ KnownPreset
        /\ est_args.resolution \in {"360p", "1080p"}
        /\ Len(info.resolution) = 2) =>
          LET target_height ==
                  IF est_args.resolution = "360p" THEN 360 ELSE 1080
              ratio == IntTrueDiv(target_height, info.resolution[2])
              estimated ==
                  FMul(FMul(OriginalMB, FMul(ratio, ratio)),
                       RatioOf(est_args.quality_preset))
          IN /\ est_result.error = "none"
             /\ est_result.estimated_size_mb = RoundDec(estimated, 2)
             /\ est_result.reduction_percent = ReductionOf(OriginalMB, estimated)
    /\ (/\ EstimateMade("resolution")
        /\ est_args.quality_preset # "" /\ est_args.resolution # ""
        /\ Len(info.resolution) # 2) =>
          LET estimated == FMul(OriginalMB, Tenths(5)) IN
          /\ est_result.error = "none"
          /\ est_result.estimated_size_mb = RoundDec(estimated, 2)
          /\ est_result.reduction_percent = 500

\* the resolution is unknown, low and 360p are requested: half of 100 MB
C18_Witness ==
    /\ EstimateMade("resolution") /\ info.size = 100 * 2^20
    /\ Len(info.resolution) = 1
    /\ est_args.quality_preset = "low" /\ est_args.resolution = "360p"
    /\ est_result.estimated_size_mb = 5000

\* C19: the target-size-mode estimate is the requested target size, for
\* every requested target size (a size above 0) and every original size.
C19_TargetSizeEstimate ==
    (/\ EstimateMade("target_size")
     /\ est_args.target_size_mb # NoTarget
     /\ FLess(Zero, est_args.target_size_mb)) =>
        /\ est_result.error = "none"
        /\ est_result.estimated_size_mb = RoundDec(est_args.target_size_mb, 2)
        /\ est_result.original_size_mb = RoundDec(OriginalMB, 2)
        /\ est_args.target_size_mb = FromInt(10) =>
              est_result.estimated_size_mb = 1000

\* a target of 10 MB asked of a 1.25 MB original
C19_Witness ==
    /\ EstimateMade("target_size") /\ est_args.target_size_mb = FromInt(10)
    /\ info.size = 5 * 2^18
    /\ est_result.original_size_mb = 125
    /\ est_result.estimated_size_mb = 1000

C21_EstimateOnlyProbes ==
    kind = "estimate" =>
        /\ Len(est_invoked) = est_calls
        /\ \A j \in 1 .. Len(est_invoked) : est_invoked[j] = "ffprobe"
        /\ EncoderCalls = 0 /\ runs = << >> /\ last = NoCall
        /\ \A k \in Parts : ~FileThere(k)
        /\ out_file = Absent
        /\ output_paths = << >> /\ returned = << >>

\* an estimate whose probe could not be started
C21_Witness ==
    /\ kind = "estimate" /\ est_calls = 1 /\ est_invoked = <<"ffprobe">>
    /\ est_args.mode = "target_size"
    /\ est_result.error = "FileNotFoundError"
    /\ out_file = Absent

(***************************************************************************)
(* Duration strings                                                        *)
(***************************************************************************)
TwoDigits(n) == IF n < 10 THEN "0" \o ToString(n) ELSE ToString(n)

EngineOperations == {"split", "target_size", "quality", "resolution"}

\* the operation has not run the encoder
NoEncoderRun ==
    /\ runs = << >>
    /\ \A k \in Parts : copy_calls[k] = 0 /\ reencode_calls[k] = 0

\* C24: when ffmpeg or ffprobe is absent as the operation begins, the
\* operation ends at once with the tool-unavailable error, having run no
\* probe and no encoder and having touched no file
C24_ToolUnavailableReportedFirst ==
    (kind \in EngineOperations /\ tools_at_entry # Tools) =>
        /\ pc = "done"
        /\ result = "RuntimeError:ffmpeg"
        /\ probes = 0
        /\ NoEncoderRun
        /\ touched = {}

\* the errors the engine declares: RuntimeError for the missing tool and
\* ValueError for everything else
DeclaredResults ==
    {"RuntimeError:ffmpeg", "ValueError:parts", "ValueError:duration",
     "ValueError:split_part", "ValueError:too_small",
     "ValueError:compress_failed", "ValueError:timeout",
     "ValueError:resolution"}

\* some invocation after the availability check met a missing program
ToolVanished ==
    \/ probe_outcome = "notfound"
    \/ last.outcome = "notfound"
    \/ \E j \in 1 .. Len(runs) : runs[j].outcome = "notfound"

\* C25: an operation that began with both programs installed and then met a
\* missing one ends with a declared error and leaves no artifact
C25_VanishedToolIsDeclaredError ==
    (kind \in EngineOperations /\ pc = "done" /\ tools_at_entry = Tools
        /\ ToolVanished) =>
        /\ result \in DeclaredResults
        /\ \A k \in Parts : files[k] = Absent
        /\ out_file = Absent

(***************************************************************************)
(* Where the operations write                                              *)
(***************************************************************************)
\* C28 as stated: every path an operation touched lies in the destination
\* directory under a name the engine generated
C28_OnlyDestinationEngineNamed ==
    \A t \in touched : t.dir = "destination" /\ t.named_by = "engine"

\* C28: a split touches only the numbered parts of its plan in the
\* destination; a compression touches only the caller's output path, and in
\* target-size mode also a temporary directory of its own with the pass log
\* in it, which no longer exists when the operation has ended
C28_WritesWhereTold ==
    /\ kind = "split" =>
          \A t \in touched :
              /\ t.dir = "destination"
              /\ t.name[1] = "base_name_part"
              /\ t.name[2] \in 1 .. Len(split_times)
    /\ kind \in {"quality", "resolution"} =>
          \A t \in touched :
              t.dir = "destination" /\ t.name = <<"output_path", 0>>
    /\ kind = "target_size" =>
          /\ \A t \in touched :
                \/ t.dir = "destination" /\ t.name = <<"output_path", 0>>
                \/ t.dir = "system_temp" /\ t.named_by = "tempfile"
                \/ t.dir = "temp_dir" /\ tempdir # "none"
          /\ pc = "done" => tempdir # "exists"
    /\ kind \notin EngineOperations => touched = {} /\ tempdir = "none"

C28_Witness ==
    /\ kind = "target_size"
    /\ pc = "done"
    /\ result = "ok"
    /\ tempdir = "removed"
    /\ touched = {compress_output_path, temp_dir_path, passlog_path}


(***************************************************************************)
(* The probes' failures                                                    *)
(***************************************************************************)
\* the errors the probes declare
ProbeErrors == {"ValueError:info", "ValueError:duration"}

\* C23: a probe that met a missing ffprobe, a timeout, unparseable output or a
\* file without streams has ended with the probe error, not with a descriptor
C23_ProbeFailsWithProbeError ==
    (/\ kind \in {"info", "duration"}
     /\ pc = "done"
     /\ \/ probe_outcome \in {"notfound", "timeout", "garbage"}
        \/ probe_streams = << >>) => result \in ProbeErrors


(***************************************************************************)
(* Requests in flight together                                             *)
(***************************************************************************)
\* C26: any two requests in flight write disjoint sets of paths
C26_PathsDisjoint ==
    \A a \in 1 .. Len(p_paths), b \in 1 .. Len(p_paths) :
        a # b => p_paths[a] \cap p_paths[b] = {}


\* C27: no cleanup of one split has removed a part that another split's
\* encoder wrote, and every split that returned its list of parts had all of
\* them on disk when it returned
C27_FailureIsLocal ==
    /\ ~c_foreign_deleted
    /\ \A w \in Workers :
          (c_op[w].pc = "done" /\ c_op[w].result = "ok") => c_op[w].intact


(***************************************************************************)
(* The endpoints' failures                                                 *)
(***************************************************************************)
\* C29: when /split has answered with an error, the uploaded input, the parts
\* and the archive of the request are all gone
C29_SplitFailureLeavesNothing ==
    (r_endpoint = "/split" /\ r_pc = "done" /\ r_status # 200) =>
        /\ ~r_input
        /\ r_segments = 0
        /\ r_zip = "absent"

\* C30: an upload that failed validation is answered 400 and a missing tool
\* found by the engine is answered 503
C30_ErrorKindsKeepTheirClass ==
    /\ (r_pc = "done" /\ r_cause = "invalid_video") => r_status = 400
    /\ (r_pc = "done" /\ r_cause = "RuntimeError") => r_status = 503


(***************************************************************************)
(* Resolution mode's heights                                               *)
(***************************************************************************)
\* the resolutions compress_resolution knows, with their heights
KnownHeights ==
    [r \in {"2160p", "1440p", "1080p", "720p", "480p", "360p"} |->
        CASE r = "2160p" -> 2160
          [] r = "1440p" -> 1440
          [] r = "1080p" -> 1080
          [] r = "720p" -> 720
          [] r = "480p" -> 480
          [] OTHER -> 360]

\* C31: compress_resolution with a resolution other than 2160p, 1440p, 1080p,
\* 720p, 480p, 360p ends at once with the invalid-resolution error (or with
\* the missing-tool error when the ffmpeg check fails first), no encoder run
\* and no file touched; with one of the six, and ffmpeg there, it goes on to
\* the encode with that height
C31_OnlyKnownResolutions ==
    kind = "resolution" =>
        /\ resolution \notin DOMAIN KnownHeights =>
              /\ pc = "done"
              /\ result \in {"ValueError:resolution", "RuntimeError:ffmpeg"}
              /\ encode_calls = 0
              /\ runs = << >>
              /\ out_file = Absent
              /\ touched = {}
        /\ (resolution \in DOMAIN KnownHeights
              /\ result # "RuntimeError:ffmpeg") =>
              /\ height = KnownHeights[resolution]
              /\ result # "ValueError:resolution"

\* the height without its "p" is refused
C31_Witness ==
    /\ kind = "resolution" /\ resolution = "720"
    /\ pc = "done" /\ result = "ValueError:resolution"
    /\ encode_calls = 0 /\ out_file = Absent


(***************************************************************************)
(* The two passes' arguments                                               *)
(***************************************************************************)
\* C32: every pass of a target-size compression is given the computed
\* bitrate truncated to an integer, which is at least 100, and the one
\* statistics log in the operation's temporary directory; pass 1 and pass 2
\* are given the same of both
C32_PassesShareBitrateAndLog ==
    kind = "target_size" =>
        /\ Len(pass_args) = pass1_calls + pass2_calls
        /\ \A j \in 1 .. Len(pass_args) :
              /\ pass_args[j][1] = j
              /\ pass_args[j][2] = FTrunc(target_bitrate_kbps)
              /\ pass_args[j][2] >= MIN_VIDEO_BITRATE
              /\ pass_args[j][3] = passlog_path
              /\ pass_args[j][2] = pass_args[1][2]
              /\ pass_args[j][3] = pass_args[1][3]

\* both passes ran at exactly 100 kbps, the floor
C32_Witness ==
    /\ kind = "target_size"
    /\ Len(pass_args) = 2
    /\ pass_args[1][2] = MIN_VIDEO_BITRATE
    /\ pass_args[2][2] = MIN_VIDEO_BITRATE
    /\ pass_args[1][3] = pass_args[2][3]


(***************************************************************************)
(* Estimates: an empty original, and estimates above the original          *)
(***************************************************************************)
\* C33: whenever the probe succeeded, also with a size of 0 bytes, the
\* estimate returns its three figures and raises nothing
C33_EstimateAlwaysReports ==
    (kind = "estimate" /\ pc = "done" /\ info.error = "none") =>
        est_result.error = "none"

\* an estimate was returned in quality or resolution mode
HeuristicEstimate ==
    /\ kind = "estimate" /\ pc = "done"
    /\ est_args.mode \in {"quality", "resolution"}
    /\ info.error = "none"
    /\ est_result.error = "none"

\* the estimate is not above the original, the reduction is in 0..100 percent
\* (the figures count hundredths of a MB and tenths of a percent)
WithinOriginal ==
    /\ est_result.estimated_size_mb <= est_result.original_size_mb
    /\ est_result.reduction_percent >= 0
    /\ est_result.reduction_percent <= 1000

\* the resolution branch scales up: a known target height above the probed one
Upscaling ==
    /\ est_args.mode = "resolution"
    /\ est_args.resolution # "" /\ est_args.quality_preset # ""
    /\ Len(info.resolution) = 2
    /\ resolution_map(est_args.resolution) > info.resolution[2]

\* C34 as stated: in quality and resolution mode the estimate never exceeds
\* the original, whatever the heights
C34_EstimateNeverExceeds == HeuristicEstimate => WithinOriginal

\* C34: in quality mode, and in resolution mode unless the target height is
\* above the probed height, the estimate is not above the original and the
\* reduction is between 0 and 100 percent; scaling 720 up to 1080 at preset
\* medium gives more than the original and a reduction below 0
C34_EstimateWithinOriginalUnlessUpscaling ==
    /\ (HeuristicEstimate /\ ~Upscaling) => WithinOriginal
    /\ (/\ HeuristicEstimate /\ Upscaling
        /\ info.resolution[2] = 720 /\ est_args.resolution = "1080p"
        /\ est_args.quality_preset = "medium") =>
          /\ est_result.estimated_size_mb > est_result.original_size_mb
          /\ est_result.reduction_percent < 0

\* 1080 scaled down to 360 at preset high: well below the original
C34_Witness ==
    /\ HeuristicEstimate /\ est_args.mode = "resolution"
    /\ Len(info.resolution) = 2 /\ info.resolution[2] = 1080
    /\ est_args.resolution = "360p" /\ est_args.quality_preset = "High"
    /\ info.size = 100 * 2^20
    /\ est_result.estimated_size_mb < est_result.original_size_mb
    /\ est_result.reduction_percent > 0


(***************************************************************************)
(* The free tier's quota                                                   *)
(***************************************************************************)
\* the last request came from an address the tracker held as free
FreeRequest == u_last.ip # "" /\ ~u_last.is_pro

\* C35: a free address's count stays within 0..5; a free request that finds
\* the count of its window below 5 runs and adds one, one that finds it at 5
\* is answered 429, adds nothing and does not run; and a count goes down
\* only when 24 hours or more have passed since the address's last reset
C35_FiveADay ==
    /\ [](\A ip \in ClientIPs :
             u_data[ip] # NoRecord =>
                 u_data[ip].count \in 0 .. FREE_DAILY_LIMIT)
    /\ []((FreeRequest /\ u_last.count_before < FREE_DAILY_LIMIT) =>
             /\ u_last.ran
             /\ u_last.status # 429
             /\ u_last.count_after = u_last.count_before + 1)
    /\ []((FreeRequest /\ u_last.count_before = FREE_DAILY_LIMIT) =>
             /\ u_last.status = 429
             /\ ~u_last.ran
             /\ u_last.count_after = FREE_DAILY_LIMIT)
    /\ [][\A ip \in ClientIPs :
             (u_data[ip] # NoRecord /\ u_data'[ip].count < u_data[ip].count) =>
                 u_now' - u_data[ip].last_reset >= RESET_HOURS]_vars

\* the sixth request of a window
C35_Witness ==
    /\ FreeRequest
    /\ u_last.count_before = FREE_DAILY_LIMIT
    /\ u_last.status = 429
    /\ ~u_last.ran
    /\ u_data[u_last.ip].count = FREE_DAILY_LIMIT
    /\ u_now - u_data[u_last.ip].last_reset < RESET_HOURS

\* C36: a request from an address whose last set_pro_status was True is
\* admitted and its count is not incremented
C36_ProStaysPro ==
    (u_last.ip # "" /\ u_last.granted) =>
        /\ u_last.status # 429
        /\ u_last.is_pro
        /\ u_last.count_after = u_last.count_before

\* C37: a free request whose handler ended in a rejection or a failure has
\* not added to the count
C37_OnlyAcceptedWorkCounts ==
    (FreeRequest /\ u_last.ran /\ u_last.status # 200) =>
        u_last.count_after = u_last.count_before

====
